---- MODULE Spec2Model ----
(***************************************************************************)
(* A model of the cursor codec and the windowed product listing of         *)
(* backend/products_api.py (duplicated in backend/app.py) and of the       *)
(* retrieval-augmented answer pipeline of backend/rag.py (duplicated in    *)
(* backend/enhanced_rag.py).                                               *)
(*                                                                         *)
(* Text is modelled as sequences of byte values, so that base64, UTF-8 and *)
(* JSON are computed on the characters as the Python library computes      *)
(* them.                                                                   *)
(***************************************************************************)
EXTENDS Integers, Sequences, FiniteSets, TLC

VARIABLES
    cpc,        \* codec exercise: "idle", "encoded" or "decoded"
    cn,         \* codec exercise: the integer given to encode_cursor (-1: none)
    ctoken,     \* codec exercise: the token given to decode_cursor
    cresult,    \* codec exercise: what decode_cursor did with ctoken
    products,   \* MOCK_PRODUCTS: the ids of the collection, in list order
    mode,       \* the client: "idle", "walk" (following next_cursor from the
                \* start) or "probe" (one request with a cursor of its own)
    request,    \* the last GET /products request: limit and next_cursor
    response,   \* the response to it
    visited,    \* the ids of the pages received so far, in order
    pages,      \* the number of requests made so far
    rpc,        \* the answer pipeline: "new", "ready" (constructed) or
                \* "failed" (its constructor raised)
    pipeline,   \* the attributes of the RAGPipeline object
    answered,   \* the last call of the pipeline, if it was query(): the
                \* question, the result returned, the collaborator calls
                \* made on the way
    asked,      \* what the collaborators of that call were set to do
    called,     \* the last call of the pipeline, if any: the method, the
                \* attributes of the pipeline when it began, what
                \* get_context returned
    agent,      \* rag_chatbot/api/ask.py: the module global `agent`
                \* ("None" or "RAGAgent")
    ask_request,    \* the last POST /ask: the handler and what it was sent
    ask_response,   \* the response to it
    agent_calls,    \* the queries handed to RAGAgent.query_agent in it
    users,      \* the rows of the table users, in insertion order
    sessions,   \* the rows of the table sessions, in insertion order
    now,        \* datetime.utcnow(), in ticks of the clock
    ticks,      \* how many times the clock was advanced
    grants,     \* the tokens signup and login handed out, with the session
                \* of each
    logged_out, \* the ids of the sessions POST /auth/logout made inactive
    pending,    \* the signup requests between their lookups and their INSERT
    auth_last,  \* the last exchange of the authentication routes
    tasks,      \* the rows of the table tasks, in insertion order
    task_last,  \* the last exchange of the task routes
    cache,      \* the dashboard: what @st.cache_resource keeps of
                \* initialize_pipeline, and the session that wrote the
                \* pipeline's retrieval_k last
    browsers,   \* the dashboard: the sessions, each with the position of
                \* its run of main, its sliders and its last query
    submits,    \* the dashboard: the questions submitted so far
    enhanced,   \* the last call of ask_question_with_provider
    study       \* the last call of generate_study_tasks

codec_vars == <<cpc, cn, ctoken, cresult>>

listing_vars == <<products, mode, request, response, visited, pages>>

rag_vars == <<rpc, pipeline, answered, asked, called>>

ask_vars == <<agent, ask_request, ask_response, agent_calls>>

auth_vars ==
    <<users, sessions, now, ticks, grants, logged_out, pending, auth_last>>

task_vars == <<tasks, task_last>>

dash_vars == <<cache, browsers, submits>>

enhanced_vars == <<enhanced, study>>

vars ==
    <<codec_vars, listing_vars, rag_vars, ask_vars, auth_vars, task_vars,
      dash_vars, enhanced_vars>>

----------------------------------------------------------------------------
(* Bounds of the model.                                                    *)

\* encode_cursor is exercised on 0..MaxCursorId: one-, two-, three- and
\* four-digit ids, which give the three base64 padding lengths.
MaxCursorId == 1100

\* A probing request carries the cursor of any id in 0..MaxProbeId.
MaxProbeId == 103

\* The generic listing is walked over collections of 1..MaxItems items.
MaxItems == 101

\* A client gives up after MaxPages requests (no walk of the model is that
\* long: the longest takes one request per item).
MaxPages == 110

\* The vector index holds at most MaxDocs passages.
MaxDocs == 3

\* The sessions of the dashboard, and the questions they submit in all.
MaxBrowsers == 2

MaxSubmits == 2

\* A query carries at most MaxPadding whitespace characters at either end.
MaxPadding == 2

\* Signups arrive while fewer than MaxUsers users exist, logins while fewer
\* than MaxSessions sessions do; at most MaxInflight signups are between
\* their lookups and their INSERT; the clock is advanced MaxTicks times.
MaxUsers == 2

\* The clock ticks TicksPerSecond times a second.
TicksPerSecond == 2

MaxSessions == 2

MaxInflight == 2

MaxTicks == 1

\* Tasks are created while fewer than MaxTasks exist and their ids are below
\* MaxTaskId.
MaxTasks == 2

MaxTaskId == 2

----------------------------------------------------------------------------
(* Constants of the program.                                               *)

\* MOCK_PRODUCTS holds the ids 1..NumProducts: range(1, 101).
NumProducts == 100

\* Query(ge=1, le=100): the range of limit.
MinLimit == 1
MaxLimit == 100

----------------------------------------------------------------------------
(* Text as bytes.                                                          *)

\* The printable ASCII characters, code 32 (space) to code 126 (~); the
\* grave accent (code 96) is written by its name.
Printable ==
    << " ", "!", "\"", "#", "$", "%", "&", "'", "(", ")", "*", "+", ",", "-", ".", "/",
       "0", "1", "2", "3", "4", "5", "6", "7", "8", "9", ":", ";", "<", "=", ">", "?",
       "@", "A", "B", "C", "D", "E", "F", "G", "H", "I", "J", "K", "L", "M", "N", "O",
       "P", "Q", "R", "S", "T", "U", "V", "W", "X", "Y", "Z", "[", "\\", "]", "^", "_",
       "GRAVE", "a", "b", "c", "d", "e", "f", "g", "h", "i", "j", "k", "l", "m", "n", "o",
       "p", "q", "r", "s", "t", "u", "v", "w", "x", "y", "z", "{", "|", "}", "~" >>

\* ord(c) of a printable character.
Ord(c) == 31 + (CHOOSE i \in 1..Len(Printable) : Printable[i] = c)

\* str.encode('utf-8') of a text of printable ASCII characters.
Bytes(cs) == [i \in 1..Len(cs) |-> Ord(cs[i])]

IsDigit(c) == c \in 48..57

\* str(n) of an integer, as json.dumps writes it.
RECURSIVE NatToStr(_)
NatToStr(n) ==
    IF n < 10 THEN << 48 + n >>
    ELSE Append(NatToStr(n \div 10), 48 + (n % 10))

IntToStr(n) == IF n < 0 THEN << 45 >> \o NatToStr(0 - n) ELSE NatToStr(n)

\* int(digits) of a run of decimal digits.
RECURSIVE DecValue(_)
DecValue(ds) ==
    IF Len(ds) = 0 THEN 0
    ELSE 10 * DecValue(SubSeq(ds, 1, Len(ds) - 1)) + (ds[Len(ds)] - 48)

----------------------------------------------------------------------------
(* base64.b64encode / base64.b64decode (binascii, validate=False).         *)

\* The base64 alphabet: the character of a 6-bit value.
B64Char(v) ==
    IF v < 26 THEN 65 + v
    ELSE IF v < 52 THEN 97 + (v - 26)
    ELSE IF v < 62 THEN 48 + (v - 52)
    ELSE IF v = 62 THEN 43
    ELSE 47

\* The 6-bit value of a character, 64 for a character outside the alphabet.
B64Value(c) ==
    IF c \in 65..90 THEN c - 65
    ELSE IF c \in 97..122 THEN c - 97 + 26
    ELSE IF c \in 48..57 THEN c - 48 + 52
    ELSE IF c = 43 THEN 62
    ELSE IF c = 47 THEN 63
    ELSE 64

\* A plausible slip: the padding is stripped from the token.
RECURSIVE b64encode_nopad(_)
b64encode_nopad(b) ==
    IF Len(b) = 0 THEN << >>
    ELSE IF Len(b) = 1 THEN
        << B64Char(b[1] \div 4), B64Char((b[1] % 4) * 16) >>
    ELSE IF Len(b) = 2 THEN
        << B64Char(b[1] \div 4), B64Char((b[1] % 4) * 16 + (b[2] \div 16)),
           B64Char((b[2] % 16) * 4) >>
    ELSE
        << B64Char(b[1] \div 4), B64Char((b[1] % 4) * 16 + (b[2] \div 16)),
           B64Char((b[2] % 16) * 4 + (b[3] \div 64)), B64Char(b[3] % 64) >>
        \o b64encode_nopad(SubSeq(b, 4, Len(b)))

\* base64.b64encode(b): three bytes to four characters, "=" padding.
RECURSIVE b64encode(_)
b64encode(b) ==
    IF Len(b) = 0 THEN << >>
    ELSE IF Len(b) = 1 THEN
        << B64Char(b[1] \div 4), B64Char((b[1] % 4) * 16), 61, 61 >>
    ELSE IF Len(b) = 2 THEN
        << B64Char(b[1] \div 4), B64Char((b[1] % 4) * 16 + (b[2] \div 16)),
           B64Char((b[2] % 16) * 4), 61 >>
    ELSE
        << B64Char(b[1] \div 4), B64Char((b[1] % 4) * 16 + (b[2] \div 16)),
           B64Char((b[2] % 16) * 4 + (b[3] \div 64)), B64Char(b[3] % 64) >>
        \o b64encode(SubSeq(b, 4, Len(b)))

\* binascii.a2b_base64 without strict mode: characters outside the alphabet
\* are skipped, a complete pad sequence ends the parse (what follows it is
\* ignored), and an incomplete last quad raises binascii.Error.
RECURSIVE a2b_base64(_, _, _, _, _, _)
a2b_base64(s, i, quad_pos, leftchar, pads, out) ==
    IF i > Len(s) THEN
        IF quad_pos # 0
        THEN [ok |-> FALSE, exc |-> "binascii.Error", bytes |-> << >>]
        ELSE [ok |-> TRUE, exc |-> "", bytes |-> out]
    ELSE IF s[i] = 61 THEN
        IF quad_pos >= 2 /\ quad_pos + pads + 1 >= 4
        THEN [ok |-> TRUE, exc |-> "", bytes |-> out]
        ELSE a2b_base64(s, i + 1, quad_pos, leftchar,
                        IF quad_pos >= 2 THEN pads + 1 ELSE pads, out)
    ELSE IF B64Value(s[i]) >= 64 THEN
        a2b_base64(s, i + 1, quad_pos, leftchar, pads, out)
    ELSE
        LET v == B64Value(s[i]) IN
        CASE quad_pos = 0 -> a2b_base64(s, i + 1, 1, v, 0, out)
          [] quad_pos = 1 -> a2b_base64(s, i + 1, 2, v % 16, 0,
                                        Append(out, leftchar * 4 + (v \div 16)))
          [] quad_pos = 2 -> a2b_base64(s, i + 1, 3, v % 4, 0,
                                        Append(out, leftchar * 16 + (v \div 4)))
          [] quad_pos = 3 -> a2b_base64(s, i + 1, 0, 0, 0,
                                        Append(out, leftchar * 64 + v))

\* base64.b64decode(s).
b64decode(s) == a2b_base64(s, 1, 0, 0, 0, << >>)

----------------------------------------------------------------------------
(* bytes.decode('utf-8'): the strict decoder accepts exactly the well-     *)
(* formed sequences. The text stays in its bytes: every character json     *)
(* gives a meaning to is ASCII, and no byte of a multi-byte sequence is.   *)

IsCont(b, i) == i <= Len(b) /\ b[i] \in 128..191

RECURSIVE utf8_valid_from(_, _)
utf8_valid_from(b, i) ==
    IF i > Len(b) THEN TRUE
    ELSE IF b[i] < 128 THEN utf8_valid_from(b, i + 1)
    ELSE IF b[i] \in 194..223 THEN
        IsCont(b, i + 1) /\ utf8_valid_from(b, i + 2)
    ELSE IF b[i] \in 224..239 THEN
        /\ IsCont(b, i + 1) /\ IsCont(b, i + 2)
        /\ (b[i] = 224 => b[i + 1] >= 160)
        /\ (b[i] = 237 => b[i + 1] <= 159)
        /\ utf8_valid_from(b, i + 3)
    ELSE IF b[i] \in 240..244 THEN
        /\ IsCont(b, i + 1) /\ IsCont(b, i + 2) /\ IsCont(b, i + 3)
        /\ (b[i] = 240 => b[i + 1] >= 144)
        /\ (b[i] = 244 => b[i + 1] <= 143)
        /\ utf8_valid_from(b, i + 4)
    ELSE FALSE

utf8_valid(b) == utf8_valid_from(b, 1)

----------------------------------------------------------------------------
(* json.loads / json.dumps. A parsed value is a record: t is the Python    *)
(* type's name, n the number of an int (and 1/0 of a bool, which is an int *)
(* in Python), s the bytes of a str, the items of a list or the (key,      *)
(* value) pairs of a dict in the order read.                               *)

JInt(n)      == [t |-> "int", n |-> n, s |-> << >>]
JFloat       == [t |-> "float", n |-> 0, s |-> << >>]
JStr(b)      == [t |-> "str", n |-> 0, s |-> b]
JBool(v)     == [t |-> "bool", n |-> IF v THEN 1 ELSE 0, s |-> << >>]
JNone        == [t |-> "NoneType", n |-> 0, s |-> << >>]
JList(items) == [t |-> "list", n |-> 0, s |-> items]
JDict(pairs) == [t |-> "dict", n |-> 0, s |-> pairs]

\* A scan that found a value ending before index end, and one that raised.
Scanned(v, e) == [ok |-> TRUE, val |-> v, end |-> e]
ScanError     == [ok |-> FALSE, val |-> JNone, end |-> 0]

At(s, i, c) == i <= Len(s) /\ s[i] = Ord(c)

\* Whether the characters of word stand in s from index i on.
StartsWith(s, i, word) ==
    /\ i + Len(word) - 1 <= Len(s)
    /\ \A k \in 1..Len(word) : s[i + k - 1] = Ord(word[k])

\* The json WHITESPACE pattern: space, tab, line feed, carriage return.
RECURSIVE SkipWs(_, _)
SkipWs(s, i) ==
    IF i <= Len(s) /\ s[i] \in {32, 9, 10, 13} THEN SkipWs(s, i + 1) ELSE i

\* The index after the run of digits that starts at i.
RECURSIVE DigitsEnd(_, _)
DigitsEnd(s, i) ==
    IF i <= Len(s) /\ IsDigit(s[i]) THEN DigitsEnd(s, i + 1) ELSE i

\* The scanner's number: -?(0|[1-9][0-9]*)(\.[0-9]+)?([eE][-+]?[0-9]+)?,
\* an int without fraction and exponent and a float with either. The
\* operators below take the indices the scanner has reached as parameters:
\* p0 after the sign, p1 after the integer digits, p2 after the fraction,
\* q after the exponent's letter and sign.
number_value(s, idx, p0, p1, p2, q) ==
    IF (At(s, p2, "e") \/ At(s, p2, "E")) /\ DigitsEnd(s, q) > q
    THEN Scanned(JFloat, DigitsEnd(s, q))
    ELSE IF p2 > p1 THEN Scanned(JFloat, p2)
    ELSE IF p0 > idx THEN Scanned(JInt(0 - DecValue(SubSeq(s, p0, p1 - 1))), p1)
    ELSE Scanned(JInt(DecValue(SubSeq(s, p0, p1 - 1))), p1)

number_exponent(s, idx, p0, p1, p2) ==
    number_value(s, idx, p0, p1, p2,
                 IF At(s, p2 + 1, "+") \/ At(s, p2 + 1, "-") THEN p2 + 2 ELSE p2 + 1)

number_fraction(s, idx, p0, p1) ==
    number_exponent(s, idx, p0, p1,
                    IF At(s, p1, ".") /\ DigitsEnd(s, p1 + 1) > p1 + 1
                    THEN DigitsEnd(s, p1 + 1) ELSE p1)

number_digits(s, idx, p0) ==
    IF ~(p0 <= Len(s) /\ IsDigit(s[p0])) THEN ScanError
    ELSE number_fraction(s, idx, p0,
                         IF s[p0] = 48 THEN p0 + 1 ELSE DigitsEnd(s, p0))

match_number(s, idx) ==
    number_digits(s, idx, IF At(s, idx, "-") THEN idx + 1 ELSE idx)

HexValue(c) ==
    IF c \in 48..57 THEN c - 48
    ELSE IF c \in 65..70 THEN c - 55
    ELSE IF c \in 97..102 THEN c - 87
    ELSE 16

\* The character of a one-letter escape, 0 when the letter is no escape.
EscapeChar(c) ==
    IF c = Ord("\"") THEN 34
    ELSE IF c = Ord("\\") THEN 92
    ELSE IF c = Ord("/") THEN 47
    ELSE IF c = Ord("b") THEN 8
    ELSE IF c = Ord("f") THEN 12
    ELSE IF c = Ord("n") THEN 10
    ELSE IF c = Ord("r") THEN 13
    ELSE IF c = Ord("t") THEN 9
    ELSE 0

\* scanstring in strict mode, from the index after the opening quote. A
\* \uXXXX escape of a code point above 127 is kept as the byte 255, which no
\* UTF-8 text holds: such a character differs from every ASCII one, and that
\* is all a key comparison needs.
RECURSIVE scanstring(_, _, _)
scanstring(s, i, acc) ==
    IF i > Len(s) THEN ScanError
    ELSE IF s[i] = 34 THEN Scanned(JStr(acc), i + 1)
    ELSE IF s[i] < 32 THEN ScanError
    ELSE IF s[i] # 92 THEN scanstring(s, i + 1, Append(acc, s[i]))
    ELSE IF i + 1 > Len(s) THEN ScanError
    ELSE IF s[i + 1] = Ord("u") THEN
        IF i + 5 <= Len(s) /\ \A k \in 2..5 : HexValue(s[i + k]) < 16 THEN
            LET cp == 4096 * HexValue(s[i + 2]) + 256 * HexValue(s[i + 3])
                      + 16 * HexValue(s[i + 4]) + HexValue(s[i + 5])
            IN  scanstring(s, i + 6, Append(acc, IF cp < 128 THEN cp ELSE 255))
        ELSE ScanError
    ELSE IF EscapeChar(s[i + 1]) # 0 THEN
        scanstring(s, i + 2, Append(acc, EscapeChar(s[i + 1])))
    ELSE ScanError

RECURSIVE scan_once(_, _), JSONObject(_, _, _), object_colon(_, _, _),
          object_value(_, _, _, _), object_next(_, _, _), JSONArray(_, _, _),
          array_next(_, _, _, _)

\* The scanner's dispatch on the first character of a value.
scan_once(s, idx) ==
    IF idx > Len(s) THEN ScanError
    ELSE IF s[idx] = 34 THEN scanstring(s, idx + 1, << >>)
    ELSE IF At(s, idx, "{") THEN
        IF At(s, SkipWs(s, idx + 1), "}")
        THEN Scanned(JDict(<< >>), SkipWs(s, idx + 1) + 1)
        ELSE JSONObject(s, SkipWs(s, idx + 1), << >>)
    ELSE IF At(s, idx, "[") THEN
        IF At(s, SkipWs(s, idx + 1), "]")
        THEN Scanned(JList(<< >>), SkipWs(s, idx + 1) + 1)
        ELSE JSONArray(s, SkipWs(s, idx + 1), << >>)
    ELSE IF StartsWith(s, idx, <<"n", "u", "l", "l">>) THEN Scanned(JNone, idx + 4)
    ELSE IF StartsWith(s, idx, <<"t", "r", "u", "e">>) THEN Scanned(JBool(TRUE), idx + 4)
    ELSE IF StartsWith(s, idx, <<"f", "a", "l", "s", "e">>) THEN
        Scanned(JBool(FALSE), idx + 5)
    ELSE IF StartsWith(s, idx, <<"N", "a", "N">>) THEN Scanned(JFloat, idx + 3)
    ELSE IF StartsWith(s, idx, <<"I", "n", "f", "i", "n", "i", "t", "y">>) THEN
        Scanned(JFloat, idx + 8)
    ELSE IF StartsWith(s, idx, <<"-", "I", "n", "f", "i", "n", "i", "t", "y">>) THEN
        Scanned(JFloat, idx + 9)
    ELSE match_number(s, idx)

\* The members of an object from the key at index i on: "key" : value, then
\* "}" or "," and the next key. pairs are the members read so far.
JSONObject(s, i, pairs) ==
    IF ~At(s, i, "\"") THEN ScanError
    ELSE object_colon(s, pairs, scanstring(s, i + 1, << >>))

\* After the key: whitespace, ":", whitespace, the value.
object_colon(s, pairs, key) ==
    IF ~key.ok THEN ScanError
    ELSE IF ~At(s, SkipWs(s, key.end), ":") THEN ScanError
    ELSE object_value(s, pairs, key,
                      scan_once(s, SkipWs(s, SkipWs(s, key.end) + 1)))

object_value(s, pairs, key, value) ==
    IF ~value.ok THEN ScanError
    ELSE object_next(s, Append(pairs, [k |-> key.val.s, v |-> value.val]),
                     SkipWs(s, value.end))

\* After a member: "}" ends the object, "," brings the next key.
object_next(s, pairs, j) ==
    IF At(s, j, "}") THEN Scanned(JDict(pairs), j + 1)
    ELSE IF At(s, j, ",") THEN JSONObject(s, SkipWs(s, j + 1), pairs)
    ELSE ScanError

\* The items of an array from the value at index i on.
JSONArray(s, i, items) == array_next(s, i, items, scan_once(s, i))

\* After an item: "]" ends the array, "," brings the next item.
array_next(s, i, items, value) ==
    IF ~value.ok THEN ScanError
    ELSE IF At(s, SkipWs(s, value.end), "]")
    THEN Scanned(JList(Append(items, value.val)), SkipWs(s, value.end) + 1)
    ELSE IF At(s, SkipWs(s, value.end), ",")
    THEN JSONArray(s, SkipWs(s, SkipWs(s, value.end) + 1), Append(items, value.val))
    ELSE ScanError

\* The end of json.loads: only whitespace may follow the value r.
loads_end(s, r) ==
    IF ~r.ok THEN ScanError
    ELSE IF SkipWs(s, r.end) # Len(s) + 1 THEN ScanError
    ELSE r

\* json.loads(s): one value between optional whitespace and nothing after
\* it; ok is FALSE where json.loads raises JSONDecodeError.
json_loads(s) == loads_end(s, scan_once(s, SkipWs(s, 1)))

\* dict.get(key): the value read last under the key, None without one.
RECURSIVE dict_get(_, _)
dict_get(pairs, key) ==
    IF Len(pairs) = 0 THEN JNone
    ELSE IF pairs[Len(pairs)].k = key THEN pairs[Len(pairs)].v
    ELSE dict_get(SubSeq(pairs, 1, Len(pairs) - 1), key)

\* json.dumps({'id': product_id}) with the default separators.
json_dumps_cursor(product_id) ==
    Bytes(<<"{", "\"", "i", "d", "\"", ":", " ">>) \o IntToStr(product_id)
        \o Bytes(<<"}">>)

----------------------------------------------------------------------------
(* The cursor codec: encode_cursor and decode_cursor.                      *)

\* What a call did: it returned value, or it raised exc (an HTTPException
\* carries its status code).
Return(v)        == [kind |-> "return", exc |-> "", status |-> 0, value |-> v]
RaiseHTTP(code)  == [kind |-> "raise", exc |-> "HTTPException", status |-> code,
                     value |-> JNone]
RaiseOther(exc)  == [kind |-> "raise", exc |-> exc, status |-> 0, value |-> JNone]

\* A plausible slip: the cursor names the item after the last one returned.
encode_cursor_next(product_id) == b64encode(json_dumps_cursor(product_id + 1))

\* encode_cursor: base64 of the JSON text of {'id': product_id}.
encode_cursor(product_id) == b64encode(json_dumps_cursor(product_id))

\* isinstance(v, int): of the values json.loads builds, an int or a bool.
isinstance_int(v) == v.t \in {"int", "bool"}

\* The check of decode_cursor on the value of cursor_data.get('id').
check_product_id(product_id) ==
    IF ~isinstance_int(product_id) \/ product_id.n < 0
    THEN RaiseHTTP(400)
    ELSE Return(product_id)

\* decode_cursor from json.loads on: a JSONDecodeError becomes the
\* HTTPException; .get on a value that is no dict raises AttributeError,
\* which the except clause does not name and which leaves the function.
decode_cursor_data(cursor_data) ==
    IF ~cursor_data.ok THEN RaiseHTTP(400)
    ELSE IF cursor_data.val.t # "dict" THEN RaiseOther("AttributeError")
    ELSE check_product_id(dict_get(cursor_data.val.s, Bytes(<<"i", "d">>)))

\* decode_cursor from the base64 decoding on: binascii.Error and
\* UnicodeDecodeError are ValueErrors and become the HTTPException.
decode_cursor_raw(raw) ==
    IF ~raw.ok THEN RaiseHTTP(400)
    ELSE IF ~utf8_valid(raw.bytes) THEN RaiseHTTP(400)
    ELSE decode_cursor_data(json_loads(raw.bytes))

\* decode_cursor(cursor).
decode_cursor(cursor) == decode_cursor_raw(b64decode(cursor))

----------------------------------------------------------------------------
(* GET /products: the windowed listing.                                    *)

\* An Optional[str]: None, or the string s.
None    == [some |-> FALSE, s |-> << >>]
Some(s) == [some |-> TRUE, s |-> s]

\* Python's truth value of an Optional[str]: None and "" are false.
Truthy(opt) == opt.some /\ Len(opt.s) > 0

MOCK_PRODUCTS == [i \in 1..NumProducts |-> i]

Min(a, b) == IF a < b THEN a ELSE b

\* seq[:n]
Take(seq, n) == SubSeq(seq, 1, Min(n, Len(seq)))

\* A response of the endpoint: the status code and, with 200, the
\* ProductsResponse. last_id is the watermark the page was computed from.
ErrorResponse(code, limit) ==
    [status |-> code, data |-> << >>, limit |-> limit, next_cursor |-> None,
     has_next |-> FALSE, count |-> 0, last_id |-> 0]

\* A plausible slip: the cursor of the last item is handed out with every
\* page, the last one included.
ProductsResponse_cursor_always(prods, has_next, last_id, limit) ==
    [status |-> 200, data |-> prods, limit |-> limit,
     next_cursor |-> IF Len(prods) > 0
                     THEN Some(encode_cursor(prods[Len(prods)])) ELSE None,
     has_next |-> has_next, count |-> Len(prods), last_id |-> last_id]

\* The response get_products builds from its locals products and has_next.
ProductsResponse(prods, has_next, last_id, limit) ==
    [status |-> 200, data |-> prods, limit |-> limit,
     next_cursor |-> IF has_next /\ Len(prods) > 0
                     THEN Some(encode_cursor(prods[Len(prods)])) ELSE None,
     has_next |-> has_next, count |-> Len(prods), last_id |-> last_id]

\* A plausible slip: has_next is true of every full page (>=), so a full
\* last page announces a next one.
page_window_full(products_page, last_id, limit) ==
    ProductsResponse(Take(products_page, limit), Len(products_page) >= limit,
                     last_id, limit)

\* has_next and products from products_page, the limit + 1 items fetched.
page_window(products_page, last_id, limit) ==
    ProductsResponse(Take(products_page, limit), Len(products_page) > limit,
                     last_id, limit)

\* A plausible slip: the filter keeps the item at the watermark (>=).
filter_products_inclusive(collection, last_id) ==
    SelectSeq(collection, LAMBDA p : p >= last_id)

\* filtered_products: the items above the watermark, in list order.
filter_products(collection, last_id) ==
    SelectSeq(collection, LAMBDA p : p > last_id)

\* The body of get_products after the cursor is decoded: the items above the
\* watermark, one more than limit fetched to learn whether a page follows.
products_page(collection, last_id, limit) ==
    page_window(Take(filter_products(collection, last_id), limit + 1),
                last_id, limit)

\* get_products once decode_cursor has run. The framework hands the
\* HTTPException on as its status and answers 500 to any other exception.
page_after_decode(collection, limit, decoded) ==
    IF decoded.kind = "return"
    THEN products_page(collection, decoded.value.n, limit)
    ELSE IF decoded.exc = "HTTPException"
    THEN ErrorResponse(decoded.status, limit)
    ELSE ErrorResponse(500, limit)

\* get_products(limit, next_cursor) over a collection. The framework
\* answers 422 to a limit outside Query(ge=1, le=100) before the function
\* runs; a cursor that is None or empty leaves last_id at 0.
get_products(collection, limit, next_cursor) ==
    IF limit < MinLimit \/ limit > MaxLimit THEN ErrorResponse(422, limit)
    ELSE IF ~Truthy(next_cursor) THEN products_page(collection, 0, limit)
    ELSE page_after_decode(collection, limit, decode_cursor(next_cursor.s))

----------------------------------------------------------------------------
(* The cursors a client may send: those the server made, and others.       *)

\* {"id": <text>}, as json.dumps lays it out.
IdObject(text) ==
    Bytes(<<"{", "\"", "i", "d", "\"", ":", " ">>) \o text \o Bytes(<<"}">>)

\* Valid JSON texts that are not objects.
NonObjectTexts ==
    { Bytes(<<"[", "1", "]">>),
      Bytes(<<"[", "]">>),
      Bytes(<<"[", "{", "\"", "i", "d", "\"", ":", " ", "1", "}", "]">>),
      Bytes(<<"7">>),
      Bytes(<<"-", "3">>),
      Bytes(<<"1", ".", "5">>),
      Bytes(<<"\"", "i", "d", "\"">>),
      Bytes(<<"t", "r", "u", "e">>),
      Bytes(<<"f", "a", "l", "s", "e">>),
      Bytes(<<"n", "u", "l", "l">>) }

\* Objects whose id is a negative integer.
NegativeIdTexts ==
    { IdObject(Bytes(<<"-", "1">>)), IdObject(Bytes(<<"-", "2", "5">>)) }

\* Objects whose id is no integer: a float, a string, null, an array, an
\* object, a boolean.
NonIntegerIdTexts ==
    { IdObject(Bytes(<<"1", ".", "5">>)),
      IdObject(Bytes(<<"1", "e", "2">>)),
      IdObject(Bytes(<<"\"", "5", "\"">>)),
      IdObject(Bytes(<<"n", "u", "l", "l">>)),
      IdObject(Bytes(<<"[", "1", "]">>)),
      IdObject(IdObject(Bytes(<<"2">>))),
      IdObject(Bytes(<<"t", "r", "u", "e">>)),
      IdObject(Bytes(<<"f", "a", "l", "s", "e">>)) }

\* Objects without an id field.
MissingIdTexts ==
    { Bytes(<<"{", "}">>),
      Bytes(<<"{", "\"", "x", "\"", ":", " ", "1", "}">>),
      Bytes(<<"{", "\"", "I", "D", "\"", ":", " ", "1", "}">>) }

\* Objects with a non-negative integer id that encode_cursor did not write:
\* no space, spaces around, a second id, -0, an escaped key, another member.
ForeignIdTexts ==
    { Bytes(<<"{", "\"", "i", "d", "\"", ":", "1", "0", "}">>),
      Bytes(<<" ", "{", " ", "\"", "i", "d", "\"", " ", ":", " ", "3", " ", "}", " ">>),
      Bytes(<<"{", "\"", "i", "d", "\"", ":", " ", "5", ",", " ",
              "\"", "i", "d", "\"", ":", " ", "7", "}">>),
      IdObject(Bytes(<<"-", "0">>)),
      Bytes(<<"{", "\"", "\\", "u", "0", "0", "6", "9", "d", "\"", ":", " ", "4", "}">>),
      Bytes(<<"{", "\"", "i", "d", "\"", ":", " ", "1", "0", "0", ",", " ",
              "\"", "x", "\"", ":", " ", "[", "1", ",", " ", "n", "u", "l", "l", "]", "}">>) }

\* Texts that are not JSON.
NotJsonTexts ==
    { Bytes(<<"{">>),
      Bytes(<<"a", "b", "c">>),
      Bytes(<<"-">>),
      Bytes(<<"{", "\"", "i", "d", "\"", ":", " ", "}">>),
      Bytes(<<"{", "\"", "i", "d", "\"", ":", " ", "1">>),
      Bytes(<<"{", "'", "i", "d", "'", ":", " ", "1", "}">>),
      IdObject(Bytes(<<"0", "1">>)),
      IdObject(Bytes(<<"1">>)) \o Bytes(<<" ", "x">>) }

\* Byte strings that are not UTF-8.
NotUtf8Bytes == { <<255, 254>>, <<128>>, <<195, 40>> }

\* An object holding a two-byte character in a string beside its id.
TwoByteText ==
    Bytes(<<"{", "\"", "n", "\"", ":", " ", "\"">>) \o <<195, 169>>
        \o Bytes(<<"\"", ",", " ", "\"", "i", "d", "\"", ":", " ", "2", "}">>)

\* A token without its "=" padding.
RECURSIVE Unpadded(_)
Unpadded(tok) ==
    IF Len(tok) > 0 /\ tok[Len(tok)] = 61
    THEN Unpadded(SubSeq(tok, 1, Len(tok) - 1)) ELSE tok

\* A token with the characters of junk put in after its first four.
Spliced(tok, junk) == SubSeq(tok, 1, 4) \o junk \o SubSeq(tok, 5, Len(tok))

\* Strings that are not base64: characters outside the alphabet, a length
\* or padding that fits no quad, and the empty string.
OutsideAlphabetTokens ==
    { Bytes(<<"!", "!", "!", "!">>),
      Bytes(<<"%", "%", "%">>),
      Spliced(encode_cursor(10), Bytes(<<"!">>)),
      Spliced(encode_cursor(7), Bytes(<<" ", "-", "_">>)),
      encode_cursor(20) \o Bytes(<<"*", "*">>),
      Spliced(b64encode(IdObject(Bytes(<<"-", "1">>))), Bytes(<<"$">>)) }

BadPaddingTokens ==
    { Bytes(<<"a">>),
      Bytes(<<"a", "b", "c">>),
      Unpadded(encode_cursor(10)),
      Unpadded(encode_cursor(100)),
      Unpadded(encode_cursor(10)) \o Bytes(<<"=">>),
      Spliced(encode_cursor(10), Bytes(<<"=">>)),
      encode_cursor(10) \o Bytes(<<"j", "u", "n", "k">>) }

EmptyToken == << >>

NotBase64Tokens == OutsideAlphabetTokens \cup BadPaddingTokens \cup {EmptyToken}

b64encode_all(texts) == { b64encode(t) : t \in texts }

NonObjectTokens    == b64encode_all(NonObjectTexts)
NegativeIdTokens   == b64encode_all(NegativeIdTexts)
NonIntegerIdTokens == b64encode_all(NonIntegerIdTexts)
MissingIdTokens    == b64encode_all(MissingIdTexts)
BadIdTokens        == NegativeIdTokens \cup NonIntegerIdTokens \cup MissingIdTokens

\* Every cursor that encode_cursor did not make.
ForeignTokens ==
    NonObjectTokens \cup BadIdTokens \cup NotBase64Tokens
        \cup b64encode_all(ForeignIdTexts \cup NotJsonTexts \cup NotUtf8Bytes
                           \cup {TwoByteText})

\* The cursors of a probing request.
ProbeTokens == { encode_cursor(n) : n \in 0..MaxProbeId } \cup ForeignTokens

\* The limits a request may carry: the valid range and one beyond each end.
RequestLimits == (MinLimit - 1)..(MaxLimit + 1)

----------------------------------------------------------------------------
(* The answer pipeline: RAGPipeline of backend/rag.py over the             *)
(* VectorStoreManager of backend/utils.py.  EnhancedRAGPipeline.query of   *)
(* backend/enhanced_rag.py is the same text as RAGPipeline.query.          *)

\* The defaults of RAGPipeline.__init__.
DefaultRetrievalK == 5

DefaultTemperature == 7     \* 0.7, in tenths

\* count: int = Field(default=3, ge=1, le=10) of AITaskGenerateRequest.
MinCount == 1

MaxCount == 10

DefaultMaxTokens == 500

\* query() shows the first PreviewLen characters of a passage.
PreviewLen == 200

\* VectorStoreManager.vector_store: None, or a Chroma handle on a collection
\* of count passages.
NoChroma == [set |-> FALSE, count |-> 0]

Chroma(count) == [set |-> TRUE, count |-> count]

\* The passages of the index, nearest first: passage i is PreviewLen - 2 + i
\* characters long, every second one carries no 'source' in its metadata (has_source).
Passage(length, char) == [j \in 1..length |-> char]

Document(i) ==
    [page_content |-> Passage(PreviewLen - 2 + i, Ord("a") + i),
     metadata |-> [has_source |-> i % 2 = 1,
                   source |-> IF i % 2 = 1 THEN "docs/intro.md" ELSE "",
                   page |-> i]]

\* The (Document, score) pair the index gives for passage i: the score is
\* the distance of the passage from the question.
Scored(i) == [doc |-> Document(i), score |-> 10 * ((i + 1) \div 2)]

\* What the collaborators may do in one query() call: whether the collection
\* answers count(), whether the index search raises and how many passages it
\* finds, whether the generative model raises and what it answers; message is
\* str(e) of whatever is raised.
QueryEnvs ==
    [count_ok : BOOLEAN, search_raises : BOOLEAN, found : 0..MaxDocs,
     llm_raises : BOOLEAN, message : {"", "rate limit exceeded"},
     content : {"", "ROS 2 is a robotics middleware."}]

\* What Chroma(...) and _collection.count() may do in load_vector_store.
LoadOutcomes ==
    { [opened |-> FALSE, count |-> 0, counted |-> FALSE] } \cup
    [opened : {TRUE}, count : 0..MaxDocs, counted : BOOLEAN]

\* The retrieval counts a pipeline is constructed with.
RetrievalKs == {1, MaxDocs - 1, DefaultRetrievalK}

Questions == {"anything", "What is ROS 2?", ""}

\* VectorStoreManager.__init__.
VectorStoreManager ==
    [collection_name |-> "rag_chatbot", persist_directory |-> "./chroma_db",
     embeddings |-> "embed-english-v3.0", vector_store |-> NoChroma]

\* VectorStoreManager.load_vector_store: the handle is assigned before the
\* collection is counted, and an exception of either step is raised again.
load_vector_store(manager, load) ==
    IF ~load.opened
    THEN [raised |-> TRUE, manager |-> manager]
    ELSE [raised |-> ~load.counted,
          manager |-> [manager EXCEPT !.vector_store = Chroma(load.count)]]

\* RAGPipeline.__init__: raises without COHERE_API_KEY; an exception of
\* load_vector_store is logged and dropped.
NoPipeline ==
    [llm |-> [model |-> "", temperature |-> 0, max_tokens |-> 0],
     vector_manager |-> VectorStoreManager, retrieval_k |-> 0,
     prompt_template |-> ""]

RAGPipeline(api_key, retrieval_k, load) ==
    IF ~api_key
    THEN [raised |-> TRUE, self |-> NoPipeline]
    ELSE [raised |-> FALSE,
          self |-> [llm |-> [model |-> "command-r-plus-08-2024",
                             temperature |-> DefaultTemperature,
                             max_tokens |-> DefaultMaxTokens],
                    vector_manager |->
                        load_vector_store(VectorStoreManager, load).manager,
                    retrieval_k |-> retrieval_k,
                    prompt_template |-> "context/question"]]

\* A plausible slip: the handle is taken to be set without being tested.
bool_vector_store_set(vector_store, env) ==
    [raised |-> FALSE, value |-> TRUE]

\* `not self.vector_store` asks the truth value of the handle: None is false,
\* a Chroma handle answers with __len__, the count of its collection, which
\* may raise.
bool_vector_store(vector_store, env) ==
    IF ~vector_store.set THEN [raised |-> FALSE, value |-> FALSE]
    ELSE IF ~env.count_ok THEN [raised |-> TRUE, value |-> FALSE]
    ELSE [raised |-> FALSE, value |-> vector_store.count > 0]

\* Chroma.similarity_search_with_score(query, k): at most k passages, the
\* nearest first.
chroma_search(vector_store, k, env) ==
    [i \in 1..Min(Min(env.found, k), vector_store.count) |-> Scored(i)]

\* VectorStoreManager.similarity_search_with_score: [] without a handle, and
\* [] for every exception.
search_with_truth(manager, k, env, truth) ==
    IF truth.raised \/ ~truth.value \/ env.search_raises
    THEN << >>
    ELSE chroma_search(manager.vector_store, k, env)

similarity_search_with_score(manager, query, k, env) ==
    search_with_truth(manager, k, env,
                      bool_vector_store(manager.vector_store, env))

\* The results of query().
unready_result(question) ==
    [question |-> question,
     answer |-> "Vector store not initialized. Please run setup_db.py first.",
     source_documents |-> << >>,
     error |-> "Vector store not available"]

empty_result(question) ==
    [question |-> question,
     answer |-> "I couldn't find any relevant information to answer your question.",
     source_documents |-> << >>,
     error |-> "No relevant documents found"]

error_result(question, message) ==
    [question |-> question,
     answer |-> "Sorry, I encountered an error while processing your question.",
     source_documents |-> << >>,
     error |-> message]

\* One entry of source_documents.
source_info(pair) ==
    [content |-> IF Len(pair.doc.page_content) > PreviewLen
                 THEN SubSeq(pair.doc.page_content, 1, PreviewLen) \o Bytes(<<".", ".", ".">>)
                 ELSE pair.doc.page_content,
     source |-> IF pair.doc.metadata.has_source
                THEN pair.doc.metadata.source ELSE "unknown",
     relevance_score |-> pair.score]

\* A plausible slip: the sources are listed last retrieved first.
success_result_reversed(question, answer, docs_with_scores) ==
    [question |-> question,
     answer |-> answer,
     source_documents |->
         [i \in 1..Len(docs_with_scores) |->
             source_info(docs_with_scores[Len(docs_with_scores) + 1 - i])],
     num_sources |-> Len(docs_with_scores)]

success_result(question, answer, docs_with_scores) ==
    [question |-> question,
     answer |-> answer,
     source_documents |->
         [i \in 1..Len(docs_with_scores) |-> source_info(docs_with_scores[i])],
     num_sources |-> Len(docs_with_scores)]

\* The collaborator calls query() makes.
SearchCall(question, k, returned) ==
    [call |-> "similarity_search_with_score", question |-> question, k |-> k,
     returned |-> Len(returned)]

InvokeCall(question, docs_with_scores) ==
    [call |-> "invoke", question |-> question, k |-> 0,
     returned |-> Len(docs_with_scores)]

Answered(question, result, calls) ==
    [question |-> question, result |-> result, calls |-> calls]

\* A plausible slip: self.llm.invoke is called outside the try block, and
\* what it raises leaves query() as an exception instead of a result.
query_generate_uncaught(question, docs_with_scores, calls, env) ==
    IF env.llm_raises
    THEN Answered(question, [exception |-> "Exception", message |-> env.message],
                  calls)
    ELSE Answered(question,
                  success_result(question, env.content, docs_with_scores),
                  calls)

\* RAGPipeline.query, from the call of self.llm.invoke.
query_generate(question, docs_with_scores, calls, env) ==
    IF env.llm_raises
    THEN Answered(question, error_result(question, env.message), calls)
    ELSE Answered(question,
                  success_result(question, env.content, docs_with_scores),
                  calls)

\* A plausible slip: the model is invoked whatever the retrieval returned.
query_retrieved_unguarded(self, question, env, docs_with_scores) ==
    query_generate(question, docs_with_scores,
                   << SearchCall(question, self.retrieval_k, docs_with_scores),
                      InvokeCall(question, docs_with_scores) >>,
                   env)

\* RAGPipeline.query, from the test of docs_with_scores.
query_retrieved(self, question, env, docs_with_scores) ==
    IF Len(docs_with_scores) = 0
    THEN Answered(question, empty_result(question),
                  << SearchCall(question, self.retrieval_k, docs_with_scores) >>)
    ELSE query_generate(question, docs_with_scores,
                        << SearchCall(question, self.retrieval_k, docs_with_scores),
                           InvokeCall(question, docs_with_scores) >>,
                        env)

\* RAGPipeline.query, from the test of the handle.
query_checked(self, question, env, truth) ==
    IF truth.raised
    THEN Answered(question, error_result(question, env.message), << >>)
    ELSE IF ~truth.value
    THEN Answered(question, unready_result(question), << >>)
    ELSE query_retrieved(self, question, env,
                         similarity_search_with_score(self.vector_manager,
                                                      question,
                                                      self.retrieval_k, env))

query(self, question, env) ==
    query_checked(self, question, env,
                  bool_vector_store(self.vector_manager.vector_store, env))

\* One entry of what get_context returns.
context_info(pair) ==
    [content |-> pair.doc.page_content,
     source |-> IF pair.doc.metadata.has_source
                THEN pair.doc.metadata.source ELSE "unknown",
     relevance_score |-> pair.score]

\* What a call of get_context leaves: the list returned and the pipeline.
Context(context, self) == [context |-> context, self |-> self]

\* RAGPipeline.get_context, from the test of the handle, with k the local
\* `k or self.retrieval_k`.
get_context_checked(self, question, k, env, truth) ==
    IF truth.raised \/ ~truth.value
    THEN Context(<< >>, self)
    ELSE Context([i \in 1..Len(similarity_search_with_score(
                                  self.vector_manager, question, k, env)) |->
                     context_info(similarity_search_with_score(
                                      self.vector_manager, question, k, env)[i])],
                 self)

\* A plausible slip: `k or self.retrieval_k` is assigned to the attribute
\* instead of the local.
get_context_stores_k(self, question, k, env) ==
    get_context_checked([self EXCEPT !.retrieval_k =
                                         IF k = 0 THEN self.retrieval_k ELSE k],
                        question,
                        IF k = 0 THEN self.retrieval_k ELSE k, env,
                        bool_vector_store(self.vector_manager.vector_store, env))

\* RAGPipeline.get_context(question, k): k is None or 0 (here 0) or a count.
get_context(self, question, k, env) ==
    get_context_checked(self, question,
                        IF k = 0 THEN self.retrieval_k ELSE k, env,
                        bool_vector_store(self.vector_manager.vector_store, env))

\* The last call of the pipeline, as it is remembered.
Called(method, self, context) ==
    [method |-> method, self |-> self, context |-> context]

\* The k a get_context call is given, and what the index does in it (the
\* generative model takes no part).
ContextKs == {0, 1, MaxDocs}

SearchEnvs ==
    { env \in QueryEnvs :
        ~env.llm_raises /\ env.content = "" /\ env.message = "" }

----------------------------------------------------------------------------
(* POST /ask: ask_rag of backend/api.py and handler.do_POST of             *)
(* rag_chatbot/api/ask.py, in front of RAGAgent.query_agent.               *)

\* The longest query the handlers let through.
MaxQueryLen == 2000

\* A query is held as its runs of equal characters: <<[char, count], ...>>,
\* every count at least 1.
Run(char, count) == [char |-> char, count |-> count]

Runs(runs) == SelectSeq(runs, LAMBDA r : r.count > 0)

\* len(text)
RECURSIVE StrLen(_)
StrLen(text) ==
    IF text = << >> THEN 0 ELSE Head(text).count + StrLen(Tail(text))

\* str.strip() removes the whitespace characters (here: the ASCII ones) from
\* both ends.
IsSpace(c) == c \in {9, 10, 11, 12, 13, 28, 29, 30, 31, 32}

IsBlank(text) == \A i \in 1..Len(text) : IsSpace(text[i].char)

RECURSIVE lstrip(_)
lstrip(text) ==
    IF text = << >> THEN text
    ELSE IF IsSpace(Head(text).char) THEN lstrip(Tail(text))
    ELSE text

RECURSIVE rstrip(_)
rstrip(text) ==
    IF text = << >> THEN text
    ELSE IF IsSpace(text[Len(text)].char)
    THEN rstrip(SubSeq(text, 1, Len(text) - 1))
    ELSE text

strip(text) == rstrip(lstrip(text))

\* The queries sent: up to MaxPadding spaces, then 0, 1 or about MaxQueryLen
\* other characters, then up to MaxPadding newlines.
Queries ==
    { Runs(<< Run(Ord(" "), lead), Run(Ord("q"), core), Run(10, trail) >>) :
        lead \in 0..MaxPadding, trail \in 0..MaxPadding,
        core \in {0, 1, MaxQueryLen - 1, MaxQueryLen, MaxQueryLen + 1} }

\* An optional message: None, or a string (which may be empty).
NoError == [some |-> FALSE, s |-> ""]

Error(s) == [some |-> TRUE, s |-> s]

\* What RAGAgent may do for one request: whether RAGAgent() raises, whether
\* query_agent raises, and the answer and error of the dict it returns.
AgentOutcomes ==
    [init_raises : BOOLEAN, raises : BOOLEAN,
     answer : {"ROS 2 is a robotics middleware."},
     error : {NoError, Error(""), Error("No relevant documents found")}]

\* The bodies sent to do_POST: no JSON, a JSON array, an object without
\* 'query', with a number as 'query', or with a string as 'query'.
Bodies ==
    { [kind |-> k, query |-> << >>] : k \in {"not_json", "array", "no_query", "number"} }
    \cup { [kind |-> "query", query |-> q] : q \in Queries }

\* The responses: a status code with a detail (HTTPException) or with the
\* fields answer, error and status of the body.
ErrorDetail(code, detail) ==
    [status_code |-> code, detail |-> detail, answer |-> "",
     error |-> NoError, status |-> ""]

QueryResponse(code, answer, error, status) ==
    [status_code |-> code, detail |-> "", answer |-> answer,
     error |-> error, status |-> status]

\* response.get("error") as a condition.
ErrorTruthy(error) == error.some /\ error.s # ""

\* The response formatted from the dict query_agent returned.
formatted_response(outcome) ==
    QueryResponse(200, outcome.answer, outcome.error,
                  IF ErrorTruthy(outcome.error) THEN "error" ELSE "success")

Handled(resp, calls, agent_after) ==
    [response |-> resp, calls |-> calls, agent |-> agent_after]

\* ask_rag of backend/api.py (rag_agent was set at startup).
ask_rag(text, outcome, agent_before) ==
    IF StrLen(text) = 0 \/ StrLen(strip(text)) = 0
    THEN Handled(ErrorDetail(400, "Query cannot be empty"), << >>, agent_before)
    ELSE IF StrLen(text) > MaxQueryLen
    THEN Handled(ErrorDetail(400, "Query too long, maximum 2000 characters"),
                 << >>, agent_before)
    ELSE IF outcome.raises
    THEN Handled(QueryResponse(200, "", Error("agent failed"), "error"),
                 << text >>, agent_before)
    ELSE Handled(formatted_response(outcome), << text >>, agent_before)

\* send_error_response of rag_chatbot/api/ask.py.
send_error_response(status_code, message) ==
    QueryResponse(status_code, "", Error(message), "error")

\* do_POST from the validation of the stripped query; get_agent() builds the
\* agent when the module global is None.
do_POST_query(text, outcome, agent_before) ==
    IF StrLen(text) = 0
    THEN Handled(send_error_response(400, "Query cannot be empty"),
                 << >>, agent_before)
    ELSE IF StrLen(text) > MaxQueryLen
    THEN Handled(send_error_response(400, "Query too long, maximum 2000 characters"),
                 << >>, agent_before)
    ELSE IF agent_before = "None" /\ outcome.init_raises
    THEN Handled(send_error_response(500, "agent failed"), << >>, "None")
    ELSE IF outcome.raises
    THEN Handled(send_error_response(500, "agent failed"), << text >>, "RAGAgent")
    ELSE Handled(formatted_response(outcome), << text >>, "RAGAgent")

\* handler.do_POST of rag_chatbot/api/ask.py.
do_POST(body, outcome, agent_before) ==
    IF body.kind = "not_json"
    THEN Handled(send_error_response(400, "Invalid JSON in request body"),
                 << >>, agent_before)
    ELSE IF body.kind = "array"
    THEN Handled(send_error_response(500, "'list' object has no attribute 'get'"),
                 << >>, agent_before)
    ELSE IF body.kind = "number"
    THEN Handled(send_error_response(500, "'int' object has no attribute 'strip'"),
                 << >>, agent_before)
    ELSE do_POST_query(strip(body.query), outcome, agent_before)

----------------------------------------------------------------------------
(* Authentication: backend/auth_utils.py, backend/auth_routes.py and       *)
(* get_current_user of backend/dependencies.py over the tables users and   *)
(* sessions of backend/models.py.  Time is counted in ticks.               *)

ACCESS_TOKEN_EXPIRE_MINUTES == 30

REFRESH_TOKEN_EXPIRE_DAYS == 30

\* timedelta(days=REFRESH_TOKEN_EXPIRE_DAYS) and
\* timedelta(minutes=ACCESS_TOKEN_EXPIRE_MINUTES), in ticks.
RefreshLifetime == REFRESH_TOKEN_EXPIRE_DAYS * 24 * 60 * 60 * TicksPerSecond

AccessLifetime == ACCESS_TOKEN_EXPIRE_MINUTES * 60 * TicksPerSecond

\* jwt.encode and jwt.decode of jose count exp and the time of the check in
\* whole seconds (timegm of the datetime); the columns of the database and
\* datetime.utcnow() keep the fraction.
Whole(time) == time - (time % TicksPerSecond)

\* bcrypt: the hash is no plain copy of the password, and checkpw accepts
\* the password it was made from.
hash_password(password) == << "$2b$", password >>

verify_password(plain_password, hashed_password) ==
    hashed_password = << "$2b$", plain_password >>

\* A signed JWT, by its claims.  An access token carries no jti: two made
\* for one user in the same minute are the same token.
create_access_token(user_id, time) ==
    [type |-> "access", sub |-> NatToStr(user_id),
     exp |-> Whole(time) + AccessLifetime, jti |-> 0, signed |-> TRUE]

create_refresh_token(user_id, time, jti) ==
    [type |-> "refresh", sub |-> NatToStr(user_id),
     exp |-> Whole(time) + RefreshLifetime, jti |-> jti,
     signed |-> TRUE]

\* A token this server did not sign.
ForgedToken ==
    [type |-> "access", sub |-> NatToStr(1), exp |-> 0, jti |-> 0,
     signed |-> FALSE]

\* decode_token: jwt.decode checks the signature and exp; None otherwise.
decode_token(token, time) == token.signed /\ token.exp >= Whole(time)

\* A plausible slip: the type of the token is not looked at.
verify_access_token_untyped(token, time) == decode_token(token, time)

verify_access_token(token, time) ==
    decode_token(token, time) /\ token.type = "access"

verify_refresh_token(token, time) ==
    decode_token(token, time) /\ token.type = "refresh"

\* Whether a filtered query of a table has rows, and .first() of them.
Exists(table, Test(_)) == Len(SelectSeq(table, Test)) > 0

First(table, Test(_)) == Head(SelectSeq(table, Test))

\* An exchange of the authentication routes, as it is remembered: the
\* route, what was sent (of the tokens, those sent to /auth/refresh,
\* /auth/logout-all, /auth/sessions and /me; ForgedToken stands for the
\* others), the status and detail of the response, how many users and
\* sessions the request created, and the ids of the sessions it listed.
AuthExchange(op, token, email, username, status, detail, users_created, sessions_created, taken) ==
    [op |-> op, token |-> token, email |-> email, username |-> username,
     status |-> status, detail |-> detail, users_created |-> users_created,
     sessions_created |-> sessions_created, taken |-> taken,
     listed |-> << >>]

\* The database after a request, the exchange, and the tokens handed out
\* (grant.made is false when none were).
AuthResult(users_after, sessions_after, exchange, grant) ==
    [users |-> users_after, sessions |-> sessions_after,
     exchange |-> exchange, grant |-> grant]

NoGrant ==
    [made |-> FALSE, how |-> "", session |-> 0, access |-> ForgedToken,
     refresh |-> ForgedToken]

Grant(how, session, access, refresh) ==
    [made |-> TRUE, how |-> how, session |-> session, access |-> access,
     refresh |-> refresh]

\* A row of users and a row of sessions, with the column defaults of
\* models.py.
User(id, email, username, hashed_password) ==
    [id |-> id, email |-> email, username |-> username,
     hashed_password |-> hashed_password, is_active |-> TRUE]

DBSession(id, user_id, token, expires_at) ==
    [id |-> id, user_id |-> user_id, refresh_token |-> token,
     is_active |-> TRUE, expires_at |-> expires_at]

\* get_token_expiration("refresh")
get_token_expiration(time) == time + RefreshLifetime

\* signup, lines 60-75: the two lookups made before anything is written.
\* The username is looked up only when it is a non-empty string.
signup_check(user_table, email, username) ==
    IF Exists(user_table, LAMBDA u : u.email = email)
    THEN "Email already registered"
    ELSE IF Truthy(username)
            /\ Exists(user_table, LAMBDA u : u.username = username)
    THEN "Username already taken"
    ELSE "ok"

\* The UNIQUE constraints of users.email and users.username (NULLs are
\* distinct from one another) as the database applies them to an INSERT.
unique_violation(user_table, email, username) ==
    \/ Exists(user_table, LAMBDA u : u.email = email)
    \/ username.some /\ Exists(user_table, LAMBDA u : u.username = username)

\* signup, lines 77-119, for a request that passed the lookups: db.commit()
\* raises IntegrityError when the INSERT breaks a UNIQUE constraint, and the
\* request ends with status 500; otherwise the user and then the session are
\* written and the tokens returned.
signup_insert(user_table, session_table, req, time, jti) ==
    IF unique_violation(user_table, req.email, req.username)
    THEN AuthResult(user_table, session_table,
                    AuthExchange("signup", ForgedToken, req.email, req.username,
                                 500, "IntegrityError", 0, 0, req.taken),
                    NoGrant)
    ELSE AuthResult(
            Append(user_table,
                   User(Len(user_table) + 1, req.email, req.username,
                        hash_password(req.password))),
            Append(session_table,
                   DBSession(Len(session_table) + 1, Len(user_table) + 1,
                             create_refresh_token(Len(user_table) + 1, time, jti),
                             get_token_expiration(time))),
            AuthExchange("signup", ForgedToken, req.email, req.username,
                         201, "Account created successfully", 1, 1, req.taken),
            Grant("signup", Len(session_table) + 1,
                  create_access_token(Len(user_table) + 1, time),
                  create_refresh_token(Len(user_table) + 1, time, jti)))

\* login, for the user found by email.
login_user(user_table, session_table, user, password, time, jti) ==
    IF ~verify_password(password, user.hashed_password)
    THEN AuthResult(user_table, session_table,
                    AuthExchange("login", ForgedToken, user.email, None, 401,
                                 "Invalid email or password", 0, 0, FALSE),
                    NoGrant)
    ELSE IF ~user.is_active
    THEN AuthResult(user_table, session_table,
                    AuthExchange("login", ForgedToken, user.email, None, 403,
                                 "Account is deactivated", 0, 0, FALSE),
                    NoGrant)
    ELSE AuthResult(
            user_table,
            Append(session_table,
                   DBSession(Len(session_table) + 1, user.id,
                             create_refresh_token(user.id, time, jti),
                             get_token_expiration(time))),
            AuthExchange("login", ForgedToken, user.email, None, 200,
                         "Login successful", 0, 1, FALSE),
            Grant("login", Len(session_table) + 1,
                  create_access_token(user.id, time),
                  create_refresh_token(user.id, time, jti)))

login(user_table, session_table, email, password, time, jti) ==
    IF ~Exists(user_table, LAMBDA u : u.email = email)
    THEN AuthResult(user_table, session_table,
                    AuthExchange("login", ForgedToken, email, None, 401,
                                 "Invalid email or password", 0, 0, FALSE),
                    NoGrant)
    ELSE login_user(user_table, session_table,
                    First(user_table, LAMBDA u : u.email = email),
                    password, time, jti)

\* The session table with the rows that satisfy Test made inactive.
Deactivate(session_table, Test(_)) ==
    [i \in 1..Len(session_table) |->
        IF Test(session_table[i])
        THEN [session_table[i] EXCEPT !.is_active = FALSE]
        ELSE session_table[i]]

Unauthorized(user_table, session_table, op, token, detail) ==
    AuthResult(user_table, session_table,
               AuthExchange(op, token, "", None, 401, detail, 0, 0, FALSE),
               NoGrant)

\* A plausible slip: expires_at of the session is not looked at, the exp of
\* the token being checked already.
refresh_session_unexpiring(user_table, session_table, session, token, time) ==
    IF ~Exists(user_table, LAMBDA u : u.id = session.user_id /\ u.is_active)
    THEN Unauthorized(user_table, session_table, "refresh", token,
                      "User not found or inactive")
    ELSE AuthResult(user_table, session_table,
                    AuthExchange("refresh", token, "", None, 200, "", 0, 0, FALSE),
                    Grant("refresh", session.id,
                          create_access_token(session.user_id, time), token))

\* refresh_token, for the active session found by the token.
refresh_session(user_table, session_table, session, token, time) ==
    IF session.expires_at < time
    THEN Unauthorized(user_table,
                      Deactivate(session_table, LAMBDA s : s.id = session.id),
                      "refresh", token, "Refresh token expired")
    ELSE IF ~Exists(user_table, LAMBDA u : u.id = session.user_id /\ u.is_active)
    THEN Unauthorized(user_table, session_table, "refresh", token,
                      "User not found or inactive")
    ELSE AuthResult(user_table, session_table,
                    AuthExchange("refresh", token, "", None, 200, "", 0, 0, FALSE),
                    Grant("refresh", session.id,
                          create_access_token(session.user_id, time), token))

\* A plausible slip: the session is looked up by its token alone, active or
\* not.
refresh_token_any_session(user_table, session_table, token, time) ==
    IF ~verify_refresh_token(token, time)
    THEN Unauthorized(user_table, session_table, "refresh", token,
                      "Invalid or expired refresh token")
    ELSE IF ~Exists(session_table, LAMBDA s : s.refresh_token = token)
    THEN Unauthorized(user_table, session_table, "refresh", token,
                      "Session not found or inactive")
    ELSE refresh_session(user_table, session_table,
                         First(session_table, LAMBDA s : s.refresh_token = token),
                         token, time)

\* refresh_token (POST /auth/refresh).
refresh_token(user_table, session_table, token, time) ==
    IF ~verify_refresh_token(token, time)
    THEN Unauthorized(user_table, session_table, "refresh", token,
                      "Invalid or expired refresh token")
    ELSE IF ~Exists(session_table,
                    LAMBDA s : s.refresh_token = token /\ s.is_active)
    THEN Unauthorized(user_table, session_table, "refresh", token,
                      "Session not found or inactive")
    ELSE refresh_session(user_table, session_table,
                         First(session_table,
                               LAMBDA s : s.refresh_token = token /\ s.is_active),
                         token, time)

\* logout (POST /auth/logout): the first session with the token, if there is
\* one, is made inactive; the answer is the same either way.
logout(user_table, session_table, token) ==
    AuthResult(user_table,
               IF Exists(session_table, LAMBDA s : s.refresh_token = token)
               THEN Deactivate(session_table,
                               LAMBDA s : s.id = First(session_table,
                                   LAMBDA r : r.refresh_token = token).id)
               ELSE session_table,
               AuthExchange("logout", ForgedToken, "", None, 200,
                            "Logged out successfully", 0, 0, FALSE),
               NoGrant)

\* A plausible slip: only the session that carries the token is made
\* inactive.
logout_all_this_session(user_table, session_table, token, time) ==
    IF ~verify_refresh_token(token, time)
    THEN Unauthorized(user_table, session_table, "logout_all", token,
                      "Invalid refresh token")
    ELSE AuthResult(user_table,
                    Deactivate(session_table,
                               LAMBDA s : s.refresh_token = token),
                    AuthExchange("logout_all", token, "", None, 200,
                                 "Logged out from all devices successfully",
                                 0, 0, FALSE),
                    NoGrant)

\* logout_all (POST /auth/logout-all).
logout_all(user_table, session_table, token, time) ==
    IF ~verify_refresh_token(token, time)
    THEN Unauthorized(user_table, session_table, "logout_all", token,
                      "Invalid refresh token")
    ELSE AuthResult(user_table,
                    Deactivate(session_table,
                               LAMBDA s : s.user_id = DecValue(token.sub)),
                    AuthExchange("logout_all", token, "", None, 200,
                                 "Logged out from all devices successfully",
                                 0, 0, FALSE),
                    NoGrant)

\* The ids of the rows of a table that satisfy Test, in table order.
Ids(table, Test(_)) ==
    [i \in 1..Len(SelectSeq(table, Test)) |-> SelectSeq(table, Test)[i].id]

\* get_sessions (GET /auth/sessions).
get_sessions(user_table, session_table, token, time) ==
    IF ~verify_refresh_token(token, time)
    THEN Unauthorized(user_table, session_table, "get_sessions", token,
                      "Invalid refresh token")
    ELSE AuthResult(user_table, session_table,
                    [AuthExchange("get_sessions", token, "", None, 200, "",
                                  0, 0, FALSE)
                        EXCEPT !.listed =
                            Ids(session_table,
                                LAMBDA s : /\ s.user_id = DecValue(token.sub)
                                           /\ s.is_active)],
                    NoGrant)

\* get_current_user of dependencies.py: the token is verified and its user
\* looked up; no session is consulted.  The status is 200 when the
\* dependency returns the user.
Authenticated(status, detail, user_id) ==
    [status |-> status, detail |-> detail, user_id |-> user_id]

get_current_user(user_table, token, time) ==
    IF ~verify_access_token(token, time)
    THEN Authenticated(401, "Invalid or expired token", 0)
    ELSE IF Len(token.sub) = 0
    THEN Authenticated(401, "Invalid token payload", 0)
    ELSE IF ~Exists(user_table, LAMBDA u : u.id = DecValue(token.sub))
    THEN Authenticated(401, "User not found", 0)
    ELSE IF ~First(user_table, LAMBDA u : u.id = DecValue(token.sub)).is_active
    THEN Authenticated(403, "User account is inactive", 0)
    ELSE Authenticated(200, "", DecValue(token.sub))

\* get_optional_current_user of dependencies.py: the user, or None (no
\* email in the exchange) where get_current_user would raise; the status
\* is that of the route, which is served either way.
optional_user(user_table, token) ==
    IF Len(token.sub) = 0
       \/ ~Exists(user_table,
                  LAMBDA u : u.id = DecValue(token.sub) /\ u.is_active)
    THEN ""
    ELSE First(user_table, LAMBDA u : u.id = DecValue(token.sub)).email

get_optional_current_user(user_table, session_table, token, time) ==
    AuthResult(user_table, session_table,
               AuthExchange("get_optional_current_user", token,
                            IF ~verify_access_token(token, time) THEN ""
                            ELSE optional_user(user_table, token),
                            None, 200, "", 0, 0, FALSE),
               NoGrant)

\* GET /me of app.py: the user get_current_user returned.
get_me_user(user_table, session_table, token, auth) ==
    AuthResult(user_table, session_table,
               AuthExchange("get_me", token,
                            IF auth.status = 200
                            THEN First(user_table,
                                       LAMBDA u : u.id = auth.user_id).email
                            ELSE "",
                            None, auth.status, auth.detail, 0, 0, FALSE),
               NoGrant)

get_me(user_table, session_table, token, time) ==
    get_me_user(user_table, session_table, token,
                get_current_user(user_table, token, time))

\* What clients send.
Emails == {"ann@example.com", "bob@example.com"}

Usernames == {None, Some(<< >>), Some(Bytes(<<"a", "n", "n">>))}

Passwords == {"Passw0rd", "Wr0ngPass"}


----------------------------------------------------------------------------
(* Tasks: backend/tasks_api.py over the table tasks of backend/models.py.  *)
(* Every route takes the caller from get_current_user.                     *)

\* recent_completions of get_progress: .limit(5)
RecentLimit == 5

\* A field of TaskUpdate that the body does not set, or a query parameter
\* left out.
Unset == [some |-> FALSE, s |-> ""]

\* A row of tasks as create_task writes it.  completed_at is << >> for
\* NULL, or holds the time.
Task(id, user_id, title) ==
    [id |-> id, user_id |-> user_id, title |-> title, status |-> "pending",
     is_ai_generated |-> FALSE, completed_at |-> << >>]

\* The id the database gives a new row: one more than the largest in the
\* table (SQLite's rowid, the default DATABASE_URL).
RECURSIVE max_id(_)
max_id(task_table) ==
    IF Len(task_table) = 0 THEN 0
    ELSE IF Head(task_table).id > max_id(Tail(task_table))
    THEN Head(task_table).id
    ELSE max_id(Tail(task_table))

\* An exchange of the task routes, as it is remembered: the route, the
\* caller get_current_user returned (0: none), the task id of the path, the
\* status and detail of the response, the tasks and the counts in its body,
\* and the table as it was before the request.
TaskExchange(op, caller, task_id, status, detail, body, total, completed, before) ==
    [op |-> op, caller |-> caller, task_id |-> task_id, status |-> status,
     detail |-> detail, body |-> body, total |-> total,
     completed |-> completed, before |-> before]

\* The table after a request, and the exchange.
TaskResult(tasks_after, exchange) ==
    [tasks |-> tasks_after, exchange |-> exchange]

\* The request did not pass get_current_user.
task_denied(task_table, op, task_id, auth) ==
    TaskResult(task_table,
               TaskExchange(op, 0, task_id, auth.status, auth.detail, << >>,
                            0, 0, task_table))

task_not_found(task_table, op, task_id, user_id) ==
    TaskResult(task_table,
               TaskExchange(op, user_id, task_id, 404, "Task not found",
                            << >>, 0, 0, task_table))

\* A plausible slip: the task is looked up by its id alone.
find_task_any_owner(task_table, task_id, user_id) ==
    SelectSeq(task_table, LAMBDA t : t.id = task_id)

\* db.query(Task).filter(Task.id == task_id,
\*                       Task.user_id == current_user.id)
find_task(task_table, task_id, user_id) ==
    SelectSeq(task_table, LAMBDA t : t.id = task_id /\ t.user_id = user_id)

\* create_task
create_task(task_table, title, auth) ==
    IF auth.status # 200 THEN task_denied(task_table, "create_task", 0, auth)
    ELSE TaskResult(
            Append(task_table,
                   Task(max_id(task_table) + 1, auth.user_id, title)),
            TaskExchange("create_task", auth.user_id,
                         max_id(task_table) + 1, 201, "",
                         << Task(max_id(task_table) + 1, auth.user_id, title) >>,
                         0, 0, task_table))

\* The rows of a user, and those of them with a status.
tasks_of(task_table, user_id) ==
    SelectSeq(task_table, LAMBDA t : t.user_id = user_id)

with_status(rows, status) ==
    SelectSeq(rows, LAMBDA t : t.status = status)

\* get_tasks, lines 101-110: the caller's rows, with the status of
\* status_filter when one is given (its pattern admits no empty string).
user_query(task_table, user_id, status_filter) ==
    IF status_filter.some
    THEN with_status(tasks_of(task_table, user_id), status_filter.s)
    ELSE tasks_of(task_table, user_id)

\* order_by(Task.created_at.desc()): the newest row first (the table is in
\* the order of creation).
Newest(rows) == [i \in 1..Len(rows) |-> rows[Len(rows) + 1 - i]]

\* get_tasks, with the default limit and offset.
get_tasks(task_table, status_filter, auth) ==
    IF auth.status # 200 THEN task_denied(task_table, "get_tasks", 0, auth)
    ELSE TaskResult(
            task_table,
            TaskExchange("get_tasks", auth.user_id, 0, 200, "",
                Newest(user_query(task_table, auth.user_id, status_filter)),
                Len(user_query(task_table, auth.user_id, status_filter)),
                Len(with_status(user_query(task_table, auth.user_id,
                                           status_filter), "completed")),
                task_table))

\* get_task
get_task(task_table, task_id, auth) ==
    IF auth.status # 200 THEN task_denied(task_table, "get_task", task_id, auth)
    ELSE IF Len(find_task(task_table, task_id, auth.user_id)) = 0
    THEN task_not_found(task_table, "get_task", task_id, auth.user_id)
    ELSE TaskResult(
            task_table,
            TaskExchange("get_task", auth.user_id, task_id, 200, "",
                << Head(find_task(task_table, task_id, auth.user_id)) >>,
                0, 0, task_table))

\* A plausible slip: completed_at is stamped whenever the status is set to
\* completed.
updated_restamped(task, task_data, time) ==
    [task EXCEPT
        !.title = IF task_data.title.some THEN task_data.title.s ELSE @,
        !.status = IF task_data.status.some THEN task_data.status.s ELSE @,
        !.completed_at =
            IF task_data.status.some /\ task_data.status.s = "completed"
            THEN << time >> ELSE @]

\* update_task, lines 198-214, on the row found: the fields of the body that
\* were set are written; completed_at is set when the status becomes
\* completed and it was NULL.
updated(task, task_data, time) ==
    [task EXCEPT
        !.title = IF task_data.title.some THEN task_data.title.s ELSE @,
        !.status = IF task_data.status.some THEN task_data.status.s ELSE @,
        !.completed_at =
            IF task_data.status.some /\ task_data.status.s = "completed"
               /\ Len(@) = 0
            THEN << time >> ELSE @]

\* The table with the row found replaced.
write_task(task_table, found, row) ==
    [i \in 1..Len(task_table) |->
        IF task_table[i] = found THEN row ELSE task_table[i]]

\* update_task
update_task(task_table, task_id, task_data, time, auth) ==
    IF auth.status # 200
    THEN task_denied(task_table, "update_task", task_id, auth)
    ELSE IF Len(find_task(task_table, task_id, auth.user_id)) = 0
    THEN task_not_found(task_table, "update_task", task_id, auth.user_id)
    ELSE TaskResult(
            write_task(task_table,
                       Head(find_task(task_table, task_id, auth.user_id)),
                       updated(Head(find_task(task_table, task_id,
                                              auth.user_id)),
                               task_data, time)),
            TaskExchange("update_task", auth.user_id, task_id, 200, "",
                << updated(Head(find_task(task_table, task_id, auth.user_id)),
                           task_data, time) >>,
                0, 0, task_table))

\* delete_task
delete_task(task_table, task_id, auth) ==
    IF auth.status # 200
    THEN task_denied(task_table, "delete_task", task_id, auth)
    ELSE IF Len(find_task(task_table, task_id, auth.user_id)) = 0
    THEN task_not_found(task_table, "delete_task", task_id, auth.user_id)
    ELSE TaskResult(
            SelectSeq(task_table,
                      LAMBDA t : t # Head(find_task(task_table, task_id,
                                                    auth.user_id))),
            TaskExchange("delete_task", auth.user_id, task_id, 200,
                         "Task deleted successfully", << >>, 0, 0, task_table))

\* order_by(Task.completed_at.desc()): the row completed last first, rows
\* completed at the same time in the order of the table.
latest_completed(rows) ==
    CHOOSE i \in 1..Len(rows) :
        /\ \A j \in 1..Len(rows) : rows[j].completed_at[1] <= rows[i].completed_at[1]
        /\ \A j \in 1..(i - 1) : rows[j].completed_at[1] < rows[i].completed_at[1]

RECURSIVE by_completed_desc(_)
by_completed_desc(rows) ==
    IF Len(rows) = 0 THEN << >>
    ELSE << rows[latest_completed(rows)] >>
         \o by_completed_desc(SubSeq(rows, 1, latest_completed(rows) - 1)
                              \o SubSeq(rows, latest_completed(rows) + 1,
                                        Len(rows)))

\* get_progress, lines 368-372: the rows of the caller that are completed,
\* the last five.
recent_completions(task_table, user_id) ==
    Take(by_completed_desc(
            SelectSeq(task_table,
                      LAMBDA t : t.user_id = user_id /\ t.status = "completed")),
         RecentLimit)

\* get_progress: total_tasks, completed_tasks and recent_completions.
get_progress(task_table, auth) ==
    IF auth.status # 200 THEN task_denied(task_table, "get_progress", 0, auth)
    ELSE TaskResult(
            task_table,
            TaskExchange("get_progress", auth.user_id, 0, 200, "",
                recent_completions(task_table, auth.user_id),
                Len(tasks_of(task_table, auth.user_id)),
                Len(with_status(tasks_of(task_table, auth.user_id),
                                "completed")),
                task_table))

\* What clients send to the task routes.
Titles == {"Read chapter 1"}

TaskUpdates ==
    { [title |-> Some("Read chapter 2"), status |-> Some("completed")],
      [title |-> Unset, status |-> Some("completed")] }

StatusFilters == {Unset, Some("completed")}

\* Bodies of PATCH /tasks/{task_id} that set the status alone.
StatusUpdates ==
    { [title |-> Unset, status |-> Some("completed")],
      [title |-> Unset, status |-> Some("in_progress")] }


----------------------------------------------------------------------------
(* The dashboard: main and initialize_pipeline of rag_chatbot/app.py.      *)
(* Every browser session runs main in a thread of its own; the pipeline    *)
(* that @st.cache_resource keeps is the same object in all of them.        *)

\* The sliders of the sidebar: temperature (in tenths) and num_sources, at
\* their defaults or moved.
SliderSettings ==
    { [temperature |-> DefaultTemperature, num_sources |-> DefaultRetrievalK],
      [temperature |-> 2, num_sources |-> 1] }

\* What the index and the model do for the dashboard's queries.
DashboardEnvs ==
    { env \in QueryEnvs :
        /\ env.count_ok /\ ~env.search_raises
        /\ env.found \in {0, MaxDocs}
        /\ env.message = "rate limit exceeded"
        /\ env.content = "ROS 2 is a robotics middleware." }

\* initialize_pipeline: (None, error) when the database is missing and
\* could not be made, or when RAGPipeline raises; else (pipeline, None).
\* writer is the session whose write of retrieval_k was the last (0: none).
initialize_pipeline(db_ready, api_key, load) ==
    IF ~db_ready \/ RAGPipeline(api_key, DefaultRetrievalK, load).raised
    THEN [state |-> "failed", pipeline |-> NoPipeline, writer |-> 0]
    ELSE [state |-> "ready",
          pipeline |-> RAGPipeline(api_key, DefaultRetrievalK, load).self,
          writer |-> 0]

\* A session of the dashboard: where its run of main is, its sliders, and
\* of its last query the retrieval_k that query() read, the session that
\* had written it, the temperature the model was invoked with, the number
\* of passages retrieved and the result.
Browser(pc, settings, k, writer, temperature, retrieved, result) ==
    [pc |-> pc, settings |-> settings, k |-> k, writer |-> writer,
     temperature |-> temperature, retrieved |-> retrieved, result |-> result]

\* pipeline.llm.temperature = temperature
set_temperature(self, temperature) ==
    [self EXCEPT !.llm.temperature = temperature]

\* A plausible slip: the value is assigned to a name that is not the
\* attribute query() reads.
set_retrieval_k_elsewhere(self, num_sources) == self

\* pipeline.retrieval_k = num_sources
set_retrieval_k(self, num_sources) ==
    [self EXCEPT !.retrieval_k = num_sources]

\* query() up to the test of docs_with_scores: the result when it returns
\* there, or the passages it goes on with.
Retrieval(done, result, retrieved) ==
    [done |-> done, result |-> result, retrieved |-> retrieved]

retrieve_found(question, docs_with_scores) ==
    IF Len(docs_with_scores) = 0
    THEN Retrieval(TRUE, empty_result(question), 0)
    ELSE Retrieval(FALSE, empty_result(question), Len(docs_with_scores))

retrieve_checked(self, question, env, truth) ==
    IF truth.raised
    THEN Retrieval(TRUE, error_result(question, env.message), 0)
    ELSE IF ~truth.value
    THEN Retrieval(TRUE, unready_result(question), 0)
    ELSE retrieve_found(question,
                        similarity_search_with_score(self.vector_manager,
                                                     question,
                                                     self.retrieval_k, env))

retrieve(self, question, env) ==
    retrieve_checked(self, question, env,
                     bool_vector_store(self.vector_manager.vector_store, env))

----------------------------------------------------------------------------
(* enhanced_rag.py: EnhancedRAGPipeline and ask_question_with_provider.    *)

\* The environment of one call: the credentials present, whether the
\* Hugging Face embedding model can be loaded, and what loading the index
\* does.
Environs ==
    [cohere_key : BOOLEAN, hf_token : BOOLEAN, hf_embeddings : BOOLEAN,
     load : LoadOutcomes]

Providers == {"cohere", "huggingface", "openai"}

\* enhanced_rag.py and the modules it imports load only with both client
\* libraries installed.
COHERE_AVAILABLE == TRUE

HF_AVAILABLE == TRUE

Raised(exception, message) ==
    [raised |-> TRUE, exception |-> exception, message |-> message,
     self |-> NoPipeline]

\* VectorStoreManager(...) as utils.py defines it: __init__ takes
\* collection_name and persist_directory, so a call with embeddings= is a
\* TypeError before the body runs; the body raises without COHERE_API_KEY.
new_VectorStoreManager(with_embeddings, environ) ==
    IF with_embeddings
    THEN Raised("TypeError",
                "VectorStoreManager.__init__() got an unexpected keyword argument 'embeddings'")
    ELSE IF ~environ.cohere_key
    THEN Raised("ValueError",
                "COHERE_API_KEY not found in environment variables")
    ELSE [raised |-> FALSE, exception |-> "", message |-> "",
          self |-> NoPipeline]

\* EnhancedRAGPipeline.__init__, the choice of self.llm.
enhanced_llm(model_provider, environ) ==
    IF model_provider = "cohere"
    THEN IF ~COHERE_AVAILABLE
         THEN Raised("ImportError",
                     "langchain-cohere is required for Cohere models")
         ELSE IF ~environ.cohere_key
         THEN Raised("ValueError",
                     "COHERE_API_KEY not found in environment variables")
         ELSE [raised |-> FALSE, exception |-> "", message |-> "",
               self |-> NoPipeline]
    ELSE IF model_provider = "huggingface"
    THEN IF ~HF_AVAILABLE
         THEN Raised("ImportError",
                     "langchain-huggingface is required for Hugging Face models")
         ELSE IF ~environ.hf_token
         THEN Raised("ValueError",
                     "HF_TOKEN not found in environment variables")
         ELSE [raised |-> FALSE, exception |-> "", message |-> "",
               self |-> NoPipeline]
    ELSE Raised("ValueError", "Unsupported model provider")

\* EnhancedRAGPipeline.__init__, the choice of the embeddings: the manager
\* is made again with embeddings=, for "huggingface" inside a try whose
\* handler makes it once more with the Cohere embeddings.
enhanced_embeddings(model_provider, environ) ==
    IF model_provider = "huggingface"
    THEN IF environ.hf_embeddings
            /\ ~new_VectorStoreManager(TRUE, environ).raised
         THEN new_VectorStoreManager(TRUE, environ)
         ELSE IF COHERE_AVAILABLE /\ environ.cohere_key
         THEN new_VectorStoreManager(TRUE, environ)
         ELSE Raised("ValueError", "Could not initialize any embedding model")
    ELSE new_VectorStoreManager(TRUE, environ)

\* EnhancedRAGPipeline.__init__, from self.vector_manager =
\* VectorStoreManager() to the second manager.
enhanced_manager(model_provider, environ) ==
    IF new_VectorStoreManager(FALSE, environ).raised
    THEN new_VectorStoreManager(FALSE, environ)
    ELSE enhanced_embeddings(model_provider, environ)

\* EnhancedRAGPipeline(model_provider=...): the defaults of the other
\* arguments; an exception of load_vector_store is logged and dropped.
EnhancedRAGPipeline(model_provider, environ) ==
    IF enhanced_llm(model_provider, environ).raised
    THEN enhanced_llm(model_provider, environ)
    ELSE IF enhanced_manager(model_provider, environ).raised
    THEN enhanced_manager(model_provider, environ)
    ELSE [raised |-> FALSE, exception |-> "", message |-> "",
          self |-> [llm |-> [model |-> "command-r-plus-08-2024",
                             temperature |-> DefaultTemperature,
                             max_tokens |-> DefaultMaxTokens],
                    vector_manager |->
                        load_vector_store(VectorStoreManager,
                                          environ.load).manager,
                    retrieval_k |-> DefaultRetrievalK,
                    prompt_template |-> "context/question"]]

\* EnhancedRAGPipeline.query: the text of RAGPipeline.query, with
\* response.content read from what self.llm.invoke returns; the
\* HuggingFaceEndpoint returns a str, which has no such attribute.
enhanced_query(model_provider, self, question, env) ==
    IF /\ model_provider = "huggingface"
       /\ Len(query(self, question, env).calls) = 2
       /\ ~env.llm_raises
    THEN error_result(question, "'str' object has no attribute 'content'")
    ELSE query(self, question, env).result

\* What ask_question_with_provider returns: the answer, or f"Error: {e}".
Said(prefix, text) == [prefix |-> prefix, text |-> text]

ask_question_with_provider(question, model_provider, environ, env) ==
    IF EnhancedRAGPipeline(model_provider, environ).raised
    THEN Said("Error: ", EnhancedRAGPipeline(model_provider, environ).message)
    ELSE Said("", enhanced_query(model_provider,
                                 EnhancedRAGPipeline(model_provider, environ).self,
                                 question, env).answer)

\* One call of ask_question_with_provider and what it returned.
ProviderCall(question, model_provider, environ, env, returned) ==
    [question |-> question, model_provider |-> model_provider,
     environ |-> environ, env |-> env, returned |-> returned]

\* The methods of an EnhancedRAGPipeline object.
EnhancedMethods == {"query", "chat", "get_context"}

\* _create_default_tasks: the first count of the five templates.  A title
\* f"Study: {topic}" is kept as its format and, in about, its argument.
task_templates(topic) ==
    << [title |-> "Study: {topic}", about |-> topic, task_type |-> "study",
        priority |-> "high", estimated_duration |-> 30],
       [title |-> "Exercise: Practice {topic}", about |-> topic,
        task_type |-> "exercise", priority |-> "medium",
        estimated_duration |-> 45],
       [title |-> "Quiz: Test knowledge on {topic}", about |-> topic,
        task_type |-> "quiz", priority |-> "medium",
        estimated_duration |-> 20],
       [title |-> "Review: Summarize {topic}", about |-> topic,
        task_type |-> "review", priority |-> "low",
        estimated_duration |-> 25],
       [title |-> "Reading: Deep dive into {topic}", about |-> topic,
        task_type |-> "reading", priority |-> "low",
        estimated_duration |-> 40] >>

create_default_tasks(topic, count) == Take(task_templates(topic), count)

\* `topic or chapter_id`
Subject(topic, chapter_id) == IF topic # "" THEN topic ELSE chapter_id

\* generate_study_tasks, from the reply of the model: the JSON array found
\* in it, cut to count, or the default tasks when there is none.
study_tasks_replied(topic, chapter_id, count, reply) ==
    IF reply.found
    THEN Take(reply.tasks, count)
    ELSE Take(create_default_tasks(Subject(topic, chapter_id), count), count)

\* generate_study_tasks: EnhancedRAGPipeline(model_provider="cohere") is
\* constructed and rag.ask_question called, a method the class does not
\* have; every exception is answered with the default tasks.
generate_study_tasks(topic, chapter_id, count, environ, reply) ==
    IF \/ EnhancedRAGPipeline("cohere", environ).raised
       \/ "ask_question" \notin EnhancedMethods
    THEN create_default_tasks(Subject(topic, chapter_id), count)
    ELSE study_tasks_replied(topic, chapter_id, count, reply)

\* What clients ask of the generation: the topic and chapter, and count
\* within the bounds of AITaskGenerateRequest.
Topics == {"", "ROS 2"}

ChapterIds == {"", "chapter-1"}

Counts == MinCount..MaxCount

\* The environments of the generation: the index loaded.
StudyEnvirons ==
    { environ \in Environs :
        /\ environ.load = [opened |-> TRUE, count |-> MaxDocs, counted |-> TRUE]
        /\ ~environ.hf_token /\ ~environ.hf_embeddings }

\* What the model may reply: no JSON array, or an array of one task.
Replies ==
    { [found |-> FALSE, tasks |-> << >>],
      [found |-> TRUE,
       tasks |-> << [title |-> "Review Chapter 1", about |-> "",
                     task_type |-> "review", priority |-> "high",
                     estimated_duration |-> 30] >>] }

\* One call of generate_study_tasks: its arguments, whether the credential
\* of the provider was present and the model replied with an array, and
\* what it returned.
StudyCall(topic, chapter_id, count, cohere_key, found, returned) ==
    [topic |-> topic, chapter_id |-> chapter_id, count |-> count,
     cohere_key |-> cohere_key, found |-> found, returned |-> returned]

----------------------------------------------------------------------------
(* The state machine.                                                      *)

CodecInit ==
    /\ cpc = "idle"
    /\ cn = -1
    /\ ctoken = << >>
    /\ cresult = Return(JNone)

ListingIdle ==
    /\ mode = "idle"
    /\ request = [limit |-> 0, next_cursor |-> None]
    /\ response = ErrorResponse(0, 0)
    /\ visited = << >>
    /\ pages = 0

\* The answer pipeline before it is constructed.
RagNew ==
    /\ rpc = "new"
    /\ pipeline = NoPipeline
    /\ answered = << >>
    /\ asked = << >>
    /\ called = << >>

\* No POST /ask was served; ask.py has built no agent.
AuthIdle ==
    /\ users = << >>
    /\ sessions = << >>
    /\ now = 0
    /\ ticks = 0
    /\ grants = {}
    /\ logged_out = {}
    /\ pending = << >>
    /\ auth_last = AuthExchange("", ForgedToken, "", None, 0, "", 0, 0, FALSE)

TasksIdle ==
    /\ tasks = << >>
    /\ task_last = TaskExchange("", 0, 0, 0, "", << >>, 0, 0, << >>)

\* The dashboard before its first run: nothing cached, MaxBrowsers sessions.
DashboardIdle ==
    /\ cache = [state |-> "empty", pipeline |-> NoPipeline, writer |-> 0]
    /\ browsers = [s \in 1..MaxBrowsers |->
                      Browser("idle", [temperature |-> DefaultTemperature,
                                       num_sources |-> DefaultRetrievalK],
                              0, 0, 0, 0, "")]
    /\ submits = 0

\* ask_question_with_provider was not called.
EnhancedIdle ==
    enhanced = ProviderCall("", "",
                   [cohere_key |-> FALSE, hf_token |-> FALSE,
                    hf_embeddings |-> FALSE,
                    load |-> [opened |-> FALSE, count |-> 0, counted |-> FALSE]],
                   [count_ok |-> TRUE, search_raises |-> FALSE, found |-> 0,
                    llm_raises |-> FALSE, message |-> "rate limit exceeded",
                    content |-> "ROS 2 is a robotics middleware."],
                   Said("", ""))

\* The names of TaskType and TaskPriority, as their values.
TaskTypes == {"study", "exercise", "quiz", "review", "reading", "practice"}

TaskPriorities == {"low", "medium", "high", "urgent"}

\* Whether Task(...) of generate_ai_tasks can be built from a generated
\* task: task_data["title"], TaskType[...] and TaskPriority[...] raise
\* KeyError otherwise.
buildable(task_data) ==
    /\ "title" \in DOMAIN task_data
    /\ task_data.task_type \in TaskTypes
    /\ task_data.priority \in TaskPriorities

\* A plausible slip: the row is written without is_ai_generated.
ai_task_unflagged(id, user_id, task_data) ==
    Task(id, user_id, task_data.title)

\* The row generate_ai_tasks builds from a generated task.
ai_task(id, user_id, task_data) ==
    [Task(id, user_id, task_data.title) EXCEPT !.is_ai_generated = TRUE]

\* The rows built from the generated tasks, numbered by the database from
\* first_id when they are committed together.
ai_tasks(first_id, user_id, generated) ==
    [i \in 1..Len(generated) |-> ai_task(first_id + i - 1, user_id, generated[i])]

\* generate_ai_tasks, the try block: the first task that cannot be built
\* ends the request with 500 before anything is committed; otherwise the
\* rows are added and committed together.
generate_ai_tasks_built(task_table, user_id, generated) ==
    IF \E i \in 1..Len(generated) : ~buildable(generated[i])
    THEN TaskResult(task_table,
                    TaskExchange("generate_ai_tasks", user_id, 0, 500,
                                 "Failed to generate tasks", << >>, 0, 0,
                                 task_table))
    ELSE TaskResult(
            task_table \o ai_tasks(max_id(task_table) + 1, user_id, generated),
            TaskExchange("generate_ai_tasks", user_id, 0, 200, "",
                         ai_tasks(max_id(task_table) + 1, user_id, generated),
                         Len(generated), 0, task_table))

\* generate_ai_tasks (POST /tasks/ai-generate).  `from enhanced_rag import
\* generate_study_tasks` stands before the try block: where enhanced_rag is
\* loaded as a top-level module, as tasks_api imports it, its relative
\* imports raise ImportError and the request ends with 500; importable is
\* whether the import succeeds.
generate_ai_tasks(task_table, body, importable, environ, reply, auth) ==
    IF auth.status # 200
    THEN task_denied(task_table, "generate_ai_tasks", 0, auth)
    ELSE IF ~importable
    THEN TaskResult(task_table,
                    TaskExchange("generate_ai_tasks", auth.user_id, 0, 500,
                                 "Internal Server Error", << >>, 0, 0,
                                 task_table))
    ELSE generate_ai_tasks_built(
            task_table, auth.user_id,
            generate_study_tasks(body.topic, body.chapter_id, body.count,
                                 environ, reply))

\* generate_study_tasks was not called.
StudyIdle == study = StudyCall("", "", 0, FALSE, FALSE, << >>)

AskIdle ==
    /\ agent = "None"
    /\ ask_request = [handler |-> "", kind |-> "", query |-> << >>]
    /\ ask_response = ErrorDetail(0, "")
    /\ agent_calls = << >>

\* The program as loaded: the module-level list MOCK_PRODUCTS is built.
Init ==
    /\ CodecInit
    /\ products = MOCK_PRODUCTS
    /\ ListingIdle
    /\ RagNew
    /\ AskIdle
    /\ AuthIdle
    /\ TasksIdle
    /\ DashboardIdle
    /\ EnhancedIdle
    /\ StudyIdle

\* encode_cursor(n) is called, on any id of 0..MaxCursorId.
Encode ==
    /\ cpc = "idle"
    /\ \E n \in 0..MaxCursorId :
        /\ cn' = n
        /\ ctoken' = encode_cursor(n)
    /\ cpc' = "encoded"
    /\ UNCHANGED <<cresult, listing_vars, rag_vars, ask_vars, auth_vars, task_vars, dash_vars, enhanced_vars>>

\* decode_cursor is called on the token encode_cursor returned.
Decode ==
    /\ cpc = "encoded"
    /\ cresult' = decode_cursor(ctoken)
    /\ cpc' = "decoded"
    /\ UNCHANGED <<cn, ctoken, listing_vars, rag_vars, ask_vars, auth_vars, task_vars, dash_vars, enhanced_vars>>

\* decode_cursor is called on a token encode_cursor did not make.
DecodeForeign ==
    /\ cpc = "idle"
    /\ \E tok \in ForeignTokens :
        /\ ctoken' = tok
        /\ cresult' = decode_cursor(tok)
    /\ cpc' = "decoded"
    /\ UNCHANGED <<cn, listing_vars, rag_vars, ask_vars, auth_vars, task_vars, dash_vars, enhanced_vars>>

\* One GET /products exchange: get_products reads MOCK_PRODUCTS and its two
\* parameters and assigns nothing outside its locals.
Exchange(limit, cursor) ==
    /\ request' = [limit |-> limit, next_cursor |-> cursor]
    /\ response' = get_products(products, limit, cursor)
    /\ products' = products

\* The first request of a walk: no cursor, any limit.
Start ==
    /\ mode = "idle"
    /\ \E limit \in RequestLimits : Exchange(limit, None)
    /\ mode' = "walk"
    /\ visited' = response'.data
    /\ pages' = 1
    /\ UNCHANGED <<codec_vars, rag_vars, ask_vars, auth_vars, task_vars, dash_vars, enhanced_vars>>

\* The next request of a walk: the same limit and the next_cursor of the
\* last response, for as long as has_next is true.
Follow ==
    /\ mode = "walk"
    /\ response.status = 200
    /\ response.has_next
    /\ pages < MaxPages
    /\ Exchange(request.limit, response.next_cursor)
    /\ visited' = visited \o response'.data
    /\ pages' = pages + 1
    /\ UNCHANGED <<mode, codec_vars, rag_vars, ask_vars, auth_vars, task_vars, dash_vars, enhanced_vars>>

\* A single request with any cursor and any limit.
Probe ==
    /\ mode = "idle"
    /\ \E tok \in ProbeTokens, limit \in RequestLimits : Exchange(limit, Some(tok))
    /\ mode' = "probe"
    /\ visited' = response'.data
    /\ pages' = 1
    /\ UNCHANGED <<codec_vars, rag_vars, ask_vars, auth_vars, task_vars, dash_vars, enhanced_vars>>

\* The cursor codec on its own.
NextCodec ==
    \/ Encode
    \/ Decode
    \/ DecodeForeign

SpecCodec == Init /\ [][NextCodec]_vars

\* GET /products over MOCK_PRODUCTS.
Next ==
    \/ Start
    \/ Follow
    \/ Probe

Spec == Init /\ [][Next]_vars

\* The listing over any collection of 1..MaxItems items with ascending ids.
InitListing ==
    /\ CodecInit
    /\ \E n \in 1..MaxItems : products = [i \in 1..n |-> i]
    /\ ListingIdle
    /\ RagNew
    /\ AskIdle
    /\ AuthIdle
    /\ TasksIdle
    /\ DashboardIdle
    /\ EnhancedIdle
    /\ StudyIdle

NextListing ==
    \/ Start
    \/ Follow

SpecListing == InitListing /\ [][NextListing]_vars

\* RAGPipeline(retrieval_k=k) is constructed, with or without the API key in
\* the environment and with any outcome of loading the index.
Construct ==
    /\ rpc = "new"
    /\ \E api_key \in BOOLEAN, k \in RetrievalKs, load \in LoadOutcomes :
        /\ rpc' = IF RAGPipeline(api_key, k, load).raised
                  THEN "failed" ELSE "ready"
        /\ pipeline' = RAGPipeline(api_key, k, load).self
    /\ UNCHANGED <<answered, asked, called, codec_vars, listing_vars, ask_vars, auth_vars, task_vars, dash_vars, enhanced_vars>>

\* pipeline.query(question): the method assigns no attribute of the pipeline.
Query ==
    /\ rpc = "ready"
    /\ \E question \in Questions, env \in QueryEnvs :
        /\ answered' = << query(pipeline, question, env) >>
        /\ asked' = << env >>
        /\ called' = << Called("query", pipeline, << >>) >>
    /\ UNCHANGED <<rpc, pipeline, codec_vars, listing_vars, ask_vars, auth_vars, task_vars, dash_vars, enhanced_vars>>

\* get_context returns: the pipeline is as the call left it.
ContextReturned(returned) ==
    /\ pipeline' = returned.self
    /\ called' = << Called("get_context", pipeline, returned.context) >>

\* pipeline.get_context(question, k), k left out (0) or given.
GetContext ==
    /\ rpc = "ready"
    /\ \E k \in ContextKs, env \in SearchEnvs :
        ContextReturned(get_context(pipeline, "What is ROS 2?", k, env))
    /\ answered' = << >>
    /\ asked' = << >>
    /\ UNCHANGED <<rpc, codec_vars, listing_vars, ask_vars, auth_vars, task_vars, dash_vars, enhanced_vars>>

NextRAG ==
    \/ Construct
    \/ Query
    \/ GetContext

SpecRAG == Init /\ [][NextRAG]_vars

\* POST /ask of backend/api.py, with any query.
AskRag ==
    /\ \E text \in Queries, outcome \in AgentOutcomes :
        /\ ask_request' = [handler |-> "ask_rag", kind |-> "query", query |-> text]
        /\ ask_response' = ask_rag(text, outcome, agent).response
        /\ agent_calls' = ask_rag(text, outcome, agent).calls
        /\ agent' = ask_rag(text, outcome, agent).agent
    /\ UNCHANGED <<codec_vars, listing_vars, rag_vars, auth_vars, task_vars, dash_vars, enhanced_vars>>

\* POST to rag_chatbot/api/ask.py, with any body.
DoPost ==
    /\ \E body \in Bodies, outcome \in AgentOutcomes :
        /\ ask_request' = [handler |-> "do_POST", kind |-> body.kind,
                           query |-> body.query]
        /\ ask_response' = do_POST(body, outcome, agent).response
        /\ agent_calls' = do_POST(body, outcome, agent).calls
        /\ agent' = do_POST(body, outcome, agent).agent
    /\ UNCHANGED <<codec_vars, listing_vars, rag_vars, auth_vars, task_vars, dash_vars, enhanced_vars>>

NextAsk ==
    \/ AskRag
    \/ DoPost

SpecAsk == Init /\ [][NextAsk]_vars

\* The tokens the clients present: those signup and login handed out, and
\* a forged one.
PresentableTokens ==
    { g.access : g \in grants } \cup { g.refresh : g \in grants }
        \cup { ForgedToken }

\* What every request of the authentication routes leaves alone.
AuthFrame ==
    UNCHANGED <<codec_vars, listing_vars, rag_vars, ask_vars, task_vars, dash_vars, enhanced_vars, ticks>>

\* A request is answered: the tables are written, the tokens handed out.
\* Where a handler draws secrets.token_urlsafe(32) for a jti it is given
\* the number of the session it creates, a value no other token carries.
Answer(result) ==
    /\ users' = result.users
    /\ sessions' = result.sessions
    /\ auth_last' = result.exchange
    /\ grants' = IF result.grant.made /\ result.grant.how # "refresh"
                 THEN grants \cup {result.grant}
                 ELSE grants

\* POST /auth/signup arrives and makes its lookups: it is rejected with 400,
\* or goes on to write (the routes of several workers interleave at the
\* database).
SignupBegin ==
    /\ Len(users) < MaxUsers
    /\ Len(pending) < MaxInflight
    /\ \E email \in Emails, username \in Usernames :
        IF signup_check(users, email, username) = "ok"
        THEN /\ pending' = Append(pending,
                    [email |-> email, username |-> username,
                     password |-> "Passw0rd",
                     taken |-> unique_violation(users, email, username)])
             /\ UNCHANGED auth_last
        ELSE /\ auth_last' = AuthExchange("signup", ForgedToken, email, username,
                    400, signup_check(users, email, username), 0, 0, TRUE)
             /\ UNCHANGED pending
    /\ UNCHANGED <<users, sessions, now, grants, logged_out>>
    /\ AuthFrame

\* POST /auth/signup served from its lookups to its response with no other
\* request in between.
Signup ==
    /\ Len(users) < MaxUsers
    /\ Len(sessions) < MaxSessions
    /\ \E email \in Emails, username \in {None} :
        IF signup_check(users, email, username) = "ok"
        THEN Answer(signup_insert(users, sessions,
                        [email |-> email, username |-> username,
                         password |-> "Passw0rd",
                         taken |-> unique_violation(users, email, username)],
                        now, Len(sessions) + 1))
        ELSE /\ auth_last' = AuthExchange("signup", ForgedToken, email, username,
                    400, signup_check(users, email, username), 0, 0, TRUE)
             /\ UNCHANGED <<users, sessions, grants>>
    /\ UNCHANGED <<now, logged_out, pending>>
    /\ AuthFrame

\* A signup that passed its lookups writes the user and the session.
SignupCommit ==
    /\ \E i \in 1..Len(pending) :
        /\ Answer(signup_insert(users, sessions, pending[i], now,
                               Len(sessions) + 1))
        /\ pending' = SubSeq(pending, 1, i - 1) \o SubSeq(pending, i + 1, Len(pending))
    /\ UNCHANGED <<now, logged_out>>
    /\ AuthFrame

\* POST /auth/login.
Login ==
    /\ Len(sessions) < MaxSessions
    /\ \E email \in Emails, password \in Passwords :
        Answer(login(users, sessions, email, password, now, Len(sessions) + 1))
    /\ UNCHANGED <<now, logged_out, pending>>
    /\ AuthFrame

\* POST /auth/refresh.
Refresh ==
    /\ \E token \in PresentableTokens :
        Answer(refresh_token(users, sessions, token, now))
    /\ UNCHANGED <<now, logged_out, pending>>
    /\ AuthFrame

\* POST /auth/logout; logged_out remembers the sessions it made inactive.
Logout ==
    /\ \E token \in PresentableTokens :
        /\ Answer(logout(users, sessions, token))
        /\ logged_out' = logged_out \cup
               { s \in 1..Len(sessions) : sessions[s].refresh_token = token }
    /\ UNCHANGED <<now, pending>>
    /\ AuthFrame

\* POST /auth/logout-all.
LogoutAll ==
    /\ \E token \in PresentableTokens :
        Answer(logout_all(users, sessions, token, now))
    /\ UNCHANGED <<now, logged_out, pending>>
    /\ AuthFrame

\* GET /auth/sessions.
GetSessions ==
    /\ \E token \in PresentableTokens :
        Answer(get_sessions(users, sessions, token, now))
    /\ UNCHANGED <<now, logged_out, pending>>
    /\ AuthFrame

\* A route that depends on get_optional_current_user is called with a
\* bearer token.
GetOptionalUser ==
    /\ \E token \in PresentableTokens :
        Answer(get_optional_current_user(users, sessions, token, now))
    /\ UNCHANGED <<now, logged_out, pending>>
    /\ AuthFrame

\* GET /me.
GetMe ==
    /\ \E token \in PresentableTokens :
        Answer(get_me(users, sessions, token, now))
    /\ UNCHANGED <<now, logged_out, pending>>
    /\ AuthFrame

\* Time passes: a second more than the lifetime of an access token or of a
\* refresh token.
AdvanceClock ==
    /\ ticks < MaxTicks
    /\ ticks' = ticks + 1
    /\ \E d \in {AccessLifetime + TicksPerSecond,
                 RefreshLifetime + TicksPerSecond} :
        now' = now + d
    /\ UNCHANGED <<users, sessions, grants, logged_out, pending, auth_last>>
    /\ UNCHANGED <<codec_vars, listing_vars, rag_vars, ask_vars, task_vars, dash_vars, enhanced_vars>>

\* Time passes: a tick more than the lifetime of a refresh token, or as
\* AdvanceClock.
AdvanceClockByTicks ==
    /\ ticks < MaxTicks
    /\ ticks' = ticks + 1
    /\ \E d \in {AccessLifetime + TicksPerSecond, RefreshLifetime + 1,
                 RefreshLifetime + TicksPerSecond} :
        now' = now + d
    /\ UNCHANGED <<users, sessions, grants, logged_out, pending, auth_last>>
    /\ UNCHANGED <<codec_vars, listing_vars, rag_vars, ask_vars, task_vars, dash_vars, enhanced_vars>>

NextSignup ==
    \/ SignupBegin
    \/ SignupCommit

SpecSignup == Init /\ [][NextSignup]_vars

NextAuth ==
    \/ Signup
    \/ Login
    \/ Refresh
    \/ Logout
    \/ LogoutAll
    \/ GetMe
    \/ AdvanceClock

SpecAuth == Init /\ [][NextAuth]_vars

\* The database after ann and bob signed up and ann logged in from a second
\* device, all within the first tick, and the tokens they were given.
AfterSignups ==
    signup_insert(
        signup_insert(<< >>, << >>,
                      [email |-> "ann@example.com", username |-> None,
                       password |-> "Passw0rd", taken |-> FALSE], 0, 1).users,
        signup_insert(<< >>, << >>,
                      [email |-> "ann@example.com", username |-> None,
                       password |-> "Passw0rd", taken |-> FALSE], 0, 1).sessions,
        [email |-> "bob@example.com", username |-> None,
         password |-> "Passw0rd", taken |-> FALSE], 0, 2)

AfterLogin ==
    login(AfterSignups.users, AfterSignups.sessions, "ann@example.com",
          "Passw0rd", 0, 3)

InitSessions ==
    /\ CodecInit
    /\ products = MOCK_PRODUCTS
    /\ ListingIdle
    /\ RagNew
    /\ AskIdle
    /\ TasksIdle
    /\ DashboardIdle
    /\ EnhancedIdle
    /\ StudyIdle
    /\ users = AfterLogin.users
    /\ sessions = AfterLogin.sessions
    /\ now = 0
    /\ ticks = 0
    /\ grants = { Grant("signup", i, create_access_token(sessions[i].user_id, 0),
                        sessions[i].refresh_token) : i \in 1..2 }
                    \cup {AfterLogin.grant}
    /\ logged_out = {}
    /\ pending = << >>
    /\ auth_last = AfterLogin.exchange

\* The session routes over that database.
NextSessions ==
    \/ Refresh
    \/ Logout
    \/ LogoutAll
    \/ GetSessions
    \/ GetOptionalUser
    \/ GetMe
    \/ AdvanceClockByTicks

SpecSessions == InitSessions /\ [][NextSessions]_vars

\* What every request of the task routes leaves alone.
TaskFrame ==
    UNCHANGED <<codec_vars, listing_vars, rag_vars, ask_vars, auth_vars, dash_vars, enhanced_vars>>

\* A request of the task routes is answered.
TaskAnswer(result) ==
    /\ tasks' = result.tasks
    /\ task_last' = result.exchange

\* The tokens the clients of the task routes present as bearer tokens: the
\* access tokens handed out, and a forged one.
BearerTokens == { g.access : g \in grants } \cup { ForgedToken }

\* POST /tasks/
CreateTask ==
    /\ Len(tasks) < MaxTasks
    /\ max_id(tasks) < MaxTaskId
    /\ \E token \in BearerTokens, title \in Titles :
        TaskAnswer(create_task(tasks, title,
                               get_current_user(users, token, now)))
    /\ TaskFrame

\* GET /tasks/
GetTasks ==
    /\ \E token \in BearerTokens, status_filter \in StatusFilters :
        TaskAnswer(get_tasks(tasks, status_filter,
                             get_current_user(users, token, now)))
    /\ TaskFrame

\* GET /tasks/{task_id}
GetTask ==
    /\ \E token \in BearerTokens, task_id \in 1..MaxTaskId :
        TaskAnswer(get_task(tasks, task_id,
                            get_current_user(users, token, now)))
    /\ TaskFrame

\* PATCH /tasks/{task_id}
UpdateTask ==
    /\ \E token \in BearerTokens, task_id \in 1..MaxTaskId,
          task_data \in TaskUpdates :
        TaskAnswer(update_task(tasks, task_id, task_data, now,
                               get_current_user(users, token, now)))
    /\ TaskFrame

\* DELETE /tasks/{task_id}
DeleteTask ==
    /\ \E token \in BearerTokens, task_id \in 1..MaxTaskId :
        TaskAnswer(delete_task(tasks, task_id,
                               get_current_user(users, token, now)))
    /\ TaskFrame

\* GET /tasks/progress/overview
GetProgress ==
    /\ \E token \in BearerTokens :
        TaskAnswer(get_progress(tasks, get_current_user(users, token, now)))
    /\ TaskFrame

\* The task routes, with the signups that make their callers.
NextTasks ==
    \/ Signup
    \/ CreateTask
    \/ GetTasks
    \/ GetTask
    \/ UpdateTask
    \/ DeleteTask
    \/ GetProgress

SpecTasks == Init /\ [][NextTasks]_vars

\* POST /tasks/ai-generate, while no generated task is in the table.
GenerateAiTasks ==
    /\ Len(tasks) < MaxTasks
    /\ \A i \in 1..Len(tasks) : ~tasks[i].is_ai_generated
    /\ \E token \in BearerTokens, topic \in Topics, count \in Counts,
          importable \in BOOLEAN, environ \in StudyEnvirons,
          reply \in Replies :
        TaskAnswer(generate_ai_tasks(
            tasks, [topic |-> topic, chapter_id |-> "chapter-1", count |-> count],
            importable, environ, reply, get_current_user(users, token, now)))
    /\ TaskFrame

\* PATCH /tasks/{task_id} with a status.
SetTaskStatus ==
    /\ \E token \in BearerTokens, task_id \in 1..MaxTaskId,
          task_data \in StatusUpdates :
        TaskAnswer(update_task(tasks, task_id, task_data, now,
                               get_current_user(users, token, now)))
    /\ TaskFrame

\* A second passes.
TaskClock ==
    /\ ticks < MaxTicks
    /\ ticks' = ticks + 1
    /\ now' = now + TicksPerSecond
    /\ UNCHANGED <<users, sessions, grants, logged_out, pending, auth_last>>
    /\ UNCHANGED <<codec_vars, listing_vars, rag_vars, ask_vars, task_vars, dash_vars, enhanced_vars>>

\* The database after ann and bob signed up, with no task yet; bob is the
\* one who comes to the task routes.
InitPlans ==
    /\ CodecInit
    /\ products = MOCK_PRODUCTS
    /\ ListingIdle
    /\ RagNew
    /\ AskIdle
    /\ TasksIdle
    /\ DashboardIdle
    /\ EnhancedIdle
    /\ StudyIdle
    /\ users = AfterSignups.users
    /\ sessions = AfterSignups.sessions
    /\ now = 0
    /\ ticks = 0
    /\ grants = { Grant("signup", 2, create_access_token(sessions[2].user_id, 0),
                        sessions[2].refresh_token) }
    /\ logged_out = {}
    /\ pending = << >>
    /\ auth_last = AfterSignups.exchange

\* Tasks are created, generated and updated.
NextPlans ==
    \/ CreateTask
    \/ GenerateAiTasks
    \/ SetTaskStatus
    \/ TaskClock

SpecPlans == InitPlans /\ [][NextPlans]_vars

\* What the dashboard leaves alone.
DashboardFrame ==
    UNCHANGED <<codec_vars, listing_vars, rag_vars, ask_vars, auth_vars, task_vars, enhanced_vars>>

\* The first run of main calls initialize_pipeline; its return value is
\* cached for every later run.
Initialize ==
    /\ cache.state = "empty"
    /\ \E db_ready \in BOOLEAN, api_key \in BOOLEAN, load \in LoadOutcomes :
        cache' = initialize_pipeline(db_ready, api_key, load)
    /\ UNCHANGED <<browsers, submits>>
    /\ DashboardFrame

\* A user types a question: the session's run of main gets the cached
\* pipeline and the values of the sliders.
Submit ==
    /\ cache.state = "ready"
    /\ submits < MaxSubmits
    /\ \E s \in DOMAIN browsers, settings \in SliderSettings :
        /\ browsers[s].pc = "idle"
        /\ browsers' = [browsers EXCEPT ![s] =
               Browser("temperature", settings, 0, 0, 0, 0, "")]
    /\ submits' = submits + 1
    /\ UNCHANGED cache
    /\ DashboardFrame

\* pipeline.llm.temperature = temperature
WriteTemperature ==
    /\ \E s \in DOMAIN browsers :
        /\ browsers[s].pc = "temperature"
        /\ cache' = [cache EXCEPT !.pipeline =
               set_temperature(@, browsers[s].settings.temperature)]
        /\ browsers' = [browsers EXCEPT ![s].pc = "retrieval_k"]
    /\ UNCHANGED submits
    /\ DashboardFrame

\* pipeline.retrieval_k = num_sources
WriteRetrievalK ==
    /\ \E s \in DOMAIN browsers :
        /\ browsers[s].pc = "retrieval_k"
        /\ cache' = [cache EXCEPT
               !.pipeline = set_retrieval_k(@, browsers[s].settings.num_sources),
               !.writer = s]
        /\ browsers' = [browsers EXCEPT ![s].pc = "query"]
    /\ UNCHANGED submits
    /\ DashboardFrame

\* The session's query() has retrieved.
Retrieved_(s, retrieval) ==
    browsers' = [browsers EXCEPT ![s] =
        Browser(IF retrieval.done THEN "idle" ELSE "generate",
                browsers[s].settings, cache.pipeline.retrieval_k, cache.writer,
                0, retrieval.retrieved,
                IF retrieval.done THEN retrieval.result.error ELSE "")]

\* pipeline.query(user_input), up to the call of the model: the handle is
\* tested and the index searched with the retrieval_k of that moment.
Retrieve ==
    /\ \E s \in DOMAIN browsers, env \in DashboardEnvs :
        /\ browsers[s].pc = "query"
        /\ Retrieved_(s, retrieve(cache.pipeline, "What is ROS 2?", env))
    /\ UNCHANGED <<cache, submits>>
    /\ DashboardFrame

\* pipeline.query(user_input), from the call of the model, which works with
\* the temperature of that moment.
Generate ==
    /\ \E s \in DOMAIN browsers, llm_raises \in BOOLEAN :
        /\ browsers[s].pc = "generate"
        /\ browsers' = [browsers EXCEPT
               ![s].pc = "idle",
               ![s].temperature = cache.pipeline.llm.temperature,
               ![s].result = IF llm_raises THEN "rate limit exceeded"
                             ELSE "success"]
    /\ UNCHANGED <<cache, submits>>
    /\ DashboardFrame

NextDashboard ==
    \/ Initialize
    \/ Submit
    \/ WriteTemperature
    \/ WriteRetrievalK
    \/ Retrieve
    \/ Generate

SpecDashboard == Init /\ [][NextDashboard]_vars

\* ask_question_with_provider(question, model_provider) is called; every
\* call builds a pipeline of its own, so one call is followed.
AskWithProvider ==
    /\ enhanced.model_provider = ""
    /\ \E question \in Questions, model_provider \in Providers,
          environ \in Environs, env \in DashboardEnvs :
        enhanced' = ProviderCall(question, model_provider, environ, env,
                        ask_question_with_provider(question, model_provider,
                                                   environ, env))
    /\ UNCHANGED <<codec_vars, listing_vars, rag_vars, ask_vars, auth_vars, task_vars, dash_vars, study>>

NextEnhanced == AskWithProvider

SpecEnhanced == Init /\ [][NextEnhanced]_vars

\* generate_study_tasks(topic, chapter_id, count=count) is awaited; every
\* call builds a pipeline of its own, so one call is followed.
GenerateStudyTasks ==
    /\ study.count = 0
    /\ \E topic \in Topics, chapter_id \in ChapterIds, count \in Counts,
          environ \in StudyEnvirons, reply \in Replies :
        study' = StudyCall(topic, chapter_id, count, environ.cohere_key,
                     reply.found,
                     generate_study_tasks(topic, chapter_id, count, environ,
                                          reply))
    /\ UNCHANGED <<codec_vars, listing_vars, rag_vars, ask_vars, auth_vars, task_vars, dash_vars, enhanced>>

NextStudy == GenerateStudyTasks

SpecStudy == Init /\ [][NextStudy]_vars

----------------------------------------------------------------------------
(* Properties of the cursor codec.                                         *)

HTTP400(r) == r.kind = "raise" /\ r.exc = "HTTPException" /\ r.status = 400

ValidLimit(limit) == limit \in MinLimit..MaxLimit

\* A string of base64 (RFC 4648): whole quads of alphabet characters, the
\* last one ending in at most two "=".
IsBase64(tok) ==
    /\ Len(tok) % 4 = 0
    /\ \A i \in 1..Len(tok) :
        \/ B64Value(tok[i]) < 64
        \/ /\ tok[i] = 61
           /\ i >= Len(tok) - 1
           /\ \A k \in i..Len(tok) : tok[k] = 61

\* C1: cursor round trip. For every non-negative integer n,
\* decode_cursor(encode_cursor(n)) returns exactly the integer n.
C1_RoundTrip ==
    (cpc = "decoded" /\ cn >= 0) =>
        /\ cresult.kind = "return"
        /\ cresult.value.t = "int"
        /\ cresult.value.n = cn

\* A three-digit id went through encode_cursor and decode_cursor, by a
\* token that ends in padding.
C1_Witness ==
    /\ cpc = "decoded"
    /\ cn = 100
    /\ ctoken[Len(ctoken)] = 61
    /\ cresult.kind = "return"
    /\ cresult.value.n = 100

\* C3: a cursor whose base64 payload is valid JSON but no object (an array,
\* a number, a string, a boolean, null) makes decode_cursor fail with the
\* HTTPException 400 and with no other error.
C3_NonObjectRejected ==
    (cpc = "decoded" /\ ctoken \in NonObjectTokens) => HTTP400(cresult)

----------------------------------------------------------------------------
(* Properties of GET /products.                                            *)

\* What decode_cursor does with the cursor of the last request.
DecodedRequest == decode_cursor(request.next_cursor.s)

LastOf(seq) == seq[Len(seq)]

\* C2: pagination determinism. Over MOCK_PRODUCTS and with any limit of
\* 1..100, a walk from the request without cursor along next_cursor has
\* received, after each request, the first pages * limit products (every
\* product at most once, in ascending id order), has_next is true exactly
\* while products remain, so that the walk ends, after at most one request
\* per product, with a response whose has_next is false, every product
\* received.
C2_PaginationDeterminism ==
    (mode = "walk" /\ ValidLimit(request.limit)) =>
        /\ response.status = 200
        /\ Len(visited) = Min(pages * request.limit, Len(products))
        /\ visited = SubSeq(products, 1, Len(visited))
        /\ response.has_next <=> Len(visited) < Len(products)
        /\ ~response.has_next => visited = products
        /\ pages <= Len(products)
        /\ pages < MaxPages

\* A walk with limit 7 has ended after 15 requests with every product.
C2_Witness ==
    /\ mode = "walk"
    /\ request.limit = 7
    /\ pages = 15
    /\ ~response.has_next
    /\ visited = products

\* C4: whenever decode_cursor returns, the id it returns is a non-negative
\* integer, and a cursor whose JSON object has a negative id, an id that is
\* no integer or no id is answered 400 with no page.
C4_OnlyIntegerIds ==
    (mode = "probe" /\ ValidLimit(request.limit) /\ Truthy(request.next_cursor)) =>
        /\ DecodedRequest.kind = "return" =>
            (DecodedRequest.value.t = "int" /\ DecodedRequest.value.n >= 0)
        /\ request.next_cursor.s \in BadIdTokens =>
            (response.status = 400 /\ response.data = << >>)

\* C5: a next_cursor that is not valid base64, the empty string included,
\* is answered 400; no page is computed from it.
C5_NotBase64Rejected ==
    (/\ mode = "probe"
     /\ ValidLimit(request.limit)
     /\ (~IsBase64(request.next_cursor.s) \/ request.next_cursor.s = EmptyToken))
        => (response.status = 400 /\ response.data = << >>)

\* C6: pagination boundary. A request whose cursor decodes to the id of the
\* last item of the collection gets an empty page: data = [], count = 0,
\* has_next = false, next_cursor = null.
C6_BoundaryPage ==
    (/\ mode = "probe"
     /\ ValidLimit(request.limit)
     /\ Truthy(request.next_cursor)
     /\ DecodedRequest.kind = "return"
     /\ DecodedRequest.value.n = LastOf(products))
        => /\ response.status = 200
           /\ response.data = << >>
           /\ response.count = 0
           /\ ~response.has_next
           /\ response.next_cursor = None

\* The cursor encode_cursor makes of the last id was sent and answered.
C6_Witness ==
    /\ mode = "probe"
    /\ request.limit = 10
    /\ request.next_cursor = Some(encode_cursor(LastOf(products)))
    /\ response.status = 200
    /\ response.count = 0

\* ceil(n / d)
CeilDiv(n, d) == (n + d - 1) \div d

\* C7: a walk with limit L over a collection of N >= 1 items takes exactly
\* ceil(N/L) requests: every page but the last holds L items, the last one
\* holds the rest (a full page when L divides N, never an empty one).
C7_PageCount ==
    (mode = "walk" /\ ValidLimit(request.limit)) =>
        /\ response.status = 200
        /\ pages <= CeilDiv(Len(products), request.limit)
        /\ response.has_next => response.count = request.limit
        /\ ~response.has_next =>
            /\ pages = CeilDiv(Len(products), request.limit)
            /\ response.count = Len(products) - (pages - 1) * request.limit
            /\ response.count >= 1

\* 101 items with limit 10: the walk ends with page 11, which holds 1 item.
C7_Witness ==
    /\ mode = "walk"
    /\ Len(products) = 101
    /\ request.limit = 10
    /\ pages = 11
    /\ response.count = 1
    /\ ~response.has_next

\* C8: in every response, has_next is true exactly when the collection
\* holds an item above the last one returned; next_cursor is set exactly
\* when has_next is true, and then decodes to the id of the last item of
\* data, which is above the watermark of the request.
C8_HasNextAndCursor ==
    response.status = 200 =>
        /\ response.has_next <=>
            /\ Len(response.data) > 0
            /\ \E i \in DOMAIN products : products[i] > LastOf(response.data)
        /\ response.next_cursor.some <=> response.has_next
        /\ response.has_next =>
            /\ decode_cursor(response.next_cursor.s).kind = "return"
            /\ decode_cursor(response.next_cursor.s).value.t = "int"
            /\ decode_cursor(response.next_cursor.s).value.n = LastOf(response.data)
            /\ LastOf(response.data) > response.last_id

\* A request from watermark 42 with limit 10 was answered with a cursor.
C8_Witness ==
    /\ mode = "probe"
    /\ request.limit = 10
    /\ response.status = 200
    /\ response.last_id = 42
    /\ response.has_next
    /\ LastOf(response.data) = 52
    /\ response.next_cursor = Some(encode_cursor(52))

\* The watermark of the last request: 0 without a cursor, else the id the
\* cursor decodes to.
Watermark ==
    IF ~Truthy(request.next_cursor) THEN 0 ELSE DecodedRequest.value.n

\* The ids of the collection above a watermark.
Remaining(watermark) ==
    { products[i] : i \in { j \in DOMAIN products : products[j] > watermark } }

\* data is the min(limit, remaining) smallest of the ids that remain, in
\* ascending order.
SmallestOf(data, limit, remaining) ==
    /\ Len(data) = Min(limit, Cardinality(remaining))
    /\ \A i \in 1..Len(data) : data[i] \in remaining
    /\ \A i \in 1..(Len(data) - 1) : data[i] < data[i + 1]
    /\ \A p \in remaining :
           (\A i \in 1..Len(data) : data[i] # p)
               => \A i \in 1..Len(data) : data[i] < p

\* C19: the data of every 200 response of get_products is the min(limit,
\* remaining) items of the collection with the smallest ids above the
\* watermark of the request (0 when it has no cursor), in ascending order of
\* id; count is the length of data and at most limit; the collection is as
\* it was.
C19_PageContents ==
    response.status = 200 =>
        /\ SmallestOf(response.data, request.limit, Remaining(Watermark))
        /\ response.count = Len(response.data)
        /\ response.count <= request.limit
        /\ products = MOCK_PRODUCTS

\* A request from watermark 95 with limit 10 was answered with the five
\* items that remain.
C19_Witness ==
    /\ mode = "probe"
    /\ request.limit = 10
    /\ response.status = 200
    /\ Watermark = 95
    /\ response.data = << 96, 97, 98, 99, 100 >>
    /\ response.count = 5

----------------------------------------------------------------------------
(* Properties of the answer pipeline.                                      *)

\* The collaborator calls of kind `call` that a query() call made.
CallsOf(entry, call) ==
    { i \in 1..Len(entry.calls) : entry.calls[i].call = call }

\* C9: when the vector-store handle of the pipeline is unset, query(q)
\* returns, for every question q, the result with the error 'Vector store
\* not available', the one fixed fallback answer and no source documents,
\* and it makes neither a retrieval call nor a call of the generative model.
C9_UnreadyIndex ==
    \A i \in 1..Len(answered) :
        ~pipeline.vector_manager.vector_store.set =>
            /\ answered[i].result =
                   [question |-> answered[i].question,
                    answer |-> "Vector store not initialized. Please run setup_db.py first.",
                    source_documents |-> << >>,
                    error |-> "Vector store not available"]
            /\ answered[i].calls = << >>

\* A pipeline whose index could not be opened has been asked "anything".
C9_Witness ==
    /\ rpc = "ready"
    /\ ~pipeline.vector_manager.vector_store.set
    /\ Len(answered) = 1
    /\ answered[1].question = "anything"
    /\ answered[1].result.error = "Vector store not available"

\* C10: when the index query of a query() call returns no passage, the
\* result is the 'no relevant information' answer with the error 'No
\* relevant documents found' and no source documents, and the generative
\* model is not invoked in that call.
C10_EmptyRetrieval ==
    \A i \in 1..Len(answered) :
        (\E c \in CallsOf(answered[i], "similarity_search_with_score") :
            answered[i].calls[c].returned = 0) =>
            /\ answered[i].result =
                   [question |-> answered[i].question,
                    answer |-> "I couldn't find any relevant information to answer your question.",
                    source_documents |-> << >>,
                    error |-> "No relevant documents found"]
            /\ CallsOf(answered[i], "invoke") = {}

\* A pipeline over an index of MaxDocs passages has made a retrieval that
\* returned nothing.
C10_Witness ==
    /\ rpc = "ready"
    /\ pipeline.vector_manager.vector_store = Chroma(MaxDocs)
    /\ Len(answered) = 1
    /\ answered[1].calls =
           << SearchCall(answered[1].question, pipeline.retrieval_k, << >>) >>
    /\ answered[1].result.error = "No relevant documents found"

\* C11: when the embedding call or the index query (both made inside the
\* index search) or the call of the generative model raises an exception e
\* during query(), the result carries the generic apology answer and
\* str(e) as its error.
C11_FailureMapping ==
    \A i \in 1..Len(answered) :
        \/ /\ CallsOf(answered[i], "similarity_search_with_score") # {}
           /\ asked[i].search_raises
        \/ /\ CallsOf(answered[i], "invoke") # {}
           /\ asked[i].llm_raises
        => answered[i].result =
               [question |-> answered[i].question,
                answer |-> "Sorry, I encountered an error while processing your question.",
                source_documents |-> << >>,
                error |-> asked[i].message]

\* A query() result that carries a generated answer (no error field).
IsSuccess(result) == "error" \notin DOMAIN result

\* C12: the source_documents of every successful query() result are in
\* descending order of relevance_score.
C12_DescendingScores ==
    \A i \in 1..Len(answered) :
        IsSuccess(answered[i].result) =>
            \A j, k \in 1..Len(answered[i].result.source_documents) :
                j < k =>
                    answered[i].result.source_documents[j].relevance_score
                        >= answered[i].result.source_documents[k].relevance_score

\* The fixed answers of the paths of query() that generate nothing.
FallbackAnswers ==
    { "Vector store not initialized. Please run setup_db.py first.",
      "I couldn't find any relevant information to answer your question.",
      "Sorry, I encountered an error while processing your question." }

\* The number of passages the index search of a query() call returned.
Retrieved(entry) ==
    entry.calls[CHOOSE c \in CallsOf(entry, "similarity_search_with_score") : TRUE]
        .returned

\* Source j of a result shows passage j of the index (the j-th nearest):
\* its score, and its text or the first PreviewLen characters of it
\* followed by "...".
ShowsPassage(source, j) ==
    /\ source.relevance_score = Scored(j).score
    /\ source.content[1] = Document(j).page_content[1]
    /\ Len(source.content) =
           IF Len(Document(j).page_content) > PreviewLen
           THEN PreviewLen + 3 ELSE Len(Document(j).page_content)

\* C13: a query() result carries an error field exactly when it carries no
\* generated answer.  Without a generated answer (index unready, nothing
\* retrieved, exception) the answer is one of the fixed non-empty fallback
\* strings and source_documents is empty; with one there is no error field,
\* and num_sources = len(source_documents) = the number of passages
\* retrieved, listed in the order retrieved.
C13_ResultShape ==
    \A i \in 1..Len(answered) :
        /\ DOMAIN answered[i].result \in
               { {"question", "answer", "source_documents", "error"},
                 {"question", "answer", "source_documents", "num_sources"} }
        /\ IsSuccess(answered[i].result) <=>
               CallsOf(answered[i], "invoke") # {} /\ ~asked[i].llm_raises
        /\ ~IsSuccess(answered[i].result) =>
               /\ answered[i].result.answer \in FallbackAnswers
               /\ answered[i].result.source_documents = << >>
        /\ IsSuccess(answered[i].result) =>
               /\ answered[i].result.answer = asked[i].content
               /\ answered[i].result.num_sources =
                      Len(answered[i].result.source_documents)
               /\ answered[i].result.num_sources = Retrieved(answered[i])
               /\ \A j \in 1..answered[i].result.num_sources :
                      ShowsPassage(answered[i].result.source_documents[j], j)

\* A generated answer with MaxDocs sources, the last one cut to its preview.
C13_Witness ==
    /\ Len(answered) = 1
    /\ IsSuccess(answered[1].result)
    /\ answered[1].result.num_sources = MaxDocs
    /\ Len(answered[1].result.source_documents[MaxDocs].content) = PreviewLen + 3

\* The outcome of the collaborators in a query() call: the handle was
\* unset or empty, a collaborator raised into query(), the search returned
\* nothing, or all went well.
Outcome(entry, env) ==
    IF ~pipeline.vector_manager.vector_store.set THEN "unset"
    ELSE IF ~env.count_ok THEN "raise"
    ELSE IF CallsOf(entry, "similarity_search_with_score") = {} THEN "unset"
    ELSE IF Retrieved(entry) = 0 THEN "empty"
    ELSE IF env.llm_raises THEN "raise"
    ELSE "normal"

\* C20: query() propagates no exception: whatever the vector store, the
\* embedding and the generative model do (handle unset, an exception, an
\* empty list, a normal result), it returns a dict with the keys question,
\* answer and source_documents, the question being the one asked.
C20_NeverPropagates ==
    \A i \in 1..Len(answered) :
        /\ Outcome(answered[i], asked[i]) \in {"unset", "raise", "empty", "normal"}
        /\ "exception" \notin DOMAIN answered[i].result
        /\ {"question", "answer", "source_documents"}
               \subseteq DOMAIN answered[i].result
        /\ answered[i].result.question = answered[i].question
        /\ Outcome(answered[i], asked[i]) = "raise" =>
               answered[i].result.error = asked[i].message

\* The generative model raised on the passages retrieved, and query()
\* returned the apology with the message of the exception.
C20_Witness ==
    /\ Len(answered) = 1
    /\ Outcome(answered[1], asked[1]) = "raise"
    /\ CallsOf(answered[1], "invoke") # {}
    /\ answered[1].result.error = "rate limit exceeded"
    /\ answered[1].result.source_documents = << >>

\* C21: query() and get_context() leave the pipeline as it was: after the
\* call retrieval_k, the prompt template, the configuration of the model
\* client and the vector-store handle have the values they had when it
\* began, whether the call succeeded, found the index unready, retrieved
\* nothing or met an exception.
C21_PipelineUnchanged ==
    \A i \in 1..Len(called) :
        /\ pipeline.retrieval_k = called[i].self.retrieval_k
        /\ pipeline.prompt_template = called[i].self.prompt_template
        /\ pipeline.llm = called[i].self.llm
        /\ pipeline.vector_manager = called[i].self.vector_manager

\* get_context was called with a k of its own, other than retrieval_k, and
\* returned that many passages.
C21_Witness ==
    /\ Len(called) = 1
    /\ called[1].method = "get_context"
    /\ Len(called[1].context) = MaxDocs
    /\ called[1].self.retrieval_k # MaxDocs
    /\ pipeline.retrieval_k # MaxDocs

----------------------------------------------------------------------------
(* Properties of POST /ask.                                                *)

\* C14: a query that is empty, or all whitespace, or longer than
\* MaxQueryLen characters is rejected by either handler with status 400 and
\* a message that says why, and the RAG agent is not called for it.
C14_AskValidation ==
    (/\ ask_request.kind = "query"
     /\ \/ IsBlank(ask_request.query)
        \/ StrLen(ask_request.query) > MaxQueryLen)
    => /\ ask_response.status_code = 400
       /\ IF ask_request.handler = "ask_rag"
          THEN ask_response.detail \in
                   { "Query cannot be empty",
                     "Query too long, maximum 2000 characters" }
          ELSE ask_response.error \in
                   { Error("Query cannot be empty"),
                     Error("Query too long, maximum 2000 characters") }
       /\ agent_calls = << >>

----------------------------------------------------------------------------
(* Properties of the authentication routes.                                *)

\* The grants whose session POST /auth/logout has made inactive.
LoggedOutGrants == { g \in grants : g.session \in logged_out }

\* C15: after POST /auth/logout succeeded with the refresh token of a
\* session, GET /me with the access token issued together with that session
\* is rejected with 401.
C15_LogoutInvalidatesAccess ==
    (/\ auth_last.op = "get_me"
     /\ \E g \in LoggedOutGrants : g.access = auth_last.token)
        => auth_last.status = 401

\* The sessions of logged_out that carry the refresh token of the last
\* exchange.
LoggedOutWith(token) ==
    { s \in logged_out : sessions[s].refresh_token = token }

\* C16: a session that logout made inactive is not active in any later
\* state, whatever signup, login, refresh, logout and logout-all calls
\* follow, and every later POST /auth/refresh with its token gets 401.
C16_LogoutIsFinal ==
    /\ \A s \in logged_out : ~sessions[s].is_active
    /\ (auth_last.op = "refresh" /\ LoggedOutWith(auth_last.token) # {})
           => auth_last.status = 401

\* A refresh token that would still pass verify_refresh_token was presented
\* after the logout of its session, following other traffic, and refused.
C16_Witness ==
    /\ auth_last.op = "refresh"
    /\ LoggedOutWith(auth_last.token) # {}
    /\ verify_refresh_token(auth_last.token, now)
    /\ auth_last.detail = "Session not found or inactive"
    /\ Len(sessions) > 1
    /\ \E s \in 1..Len(sessions) : sessions[s].is_active

\* No two rows of users share an email or a non-null username.
UniqueUsers ==
    \A i, j \in 1..Len(users) :
        i # j => /\ users[i].email # users[j].email
                 /\ users[i].username.some
                        => users[i].username # users[j].username

\* C18: a signup whose email is registered, or whose username is taken,
\* when it arrives gets 400 and creates no user and no session; and under
\* every interleaving of signups no two users share an email or a non-null
\* username.
C18_SignupUniqueness ==
    /\ (auth_last.op = "signup" /\ auth_last.taken)
           => /\ auth_last.status = 400
              /\ auth_last.users_created = 0
              /\ auth_last.sessions_created = 0
    /\ UniqueUsers

\* The active sessions that carry the token, and of them those that have
\* not expired and whose user exists and is active.
ActiveWith(token) ==
    { i \in 1..Len(sessions) :
        sessions[i].refresh_token = token /\ sessions[i].is_active }

UsableWith(token) ==
    { i \in ActiveWith(token) :
        /\ sessions[i].expires_at >= now
        /\ \E u \in 1..Len(users) :
               users[u].id = sessions[i].user_id /\ users[u].is_active }

\* C24: POST /auth/refresh answers 200 with a new access token only if the
\* token is a valid JWT of type refresh, an active session carries exactly
\* that token, the session has not expired and its user exists and is
\* active; otherwise it answers 401, and when the session has expired the
\* session is made inactive.
C24_RefreshGuard ==
    [][(auth_last'.op = "refresh" /\ now' = now) =>
          /\ auth_last'.status \in {200, 401}
          /\ auth_last'.status = 200 =>
                 /\ verify_refresh_token(auth_last'.token, now)
                 /\ UsableWith(auth_last'.token) # {}
          /\ (/\ verify_refresh_token(auth_last'.token, now)
              /\ \E i \in ActiveWith(auth_last'.token) :
                     sessions[i].expires_at < now)
                 => /\ auth_last'.status = 401
                    /\ \A i \in ActiveWith(auth_last'.token) :
                           ~sessions'[i].is_active
          /\ users' = users
          /\ Len(sessions') = Len(sessions)]_vars

\* A refresh token whose JWT still verified was presented within the second
\* after its session had expired: 401, and the session is inactive.
C24_Witness ==
    /\ auth_last.op = "refresh"
    /\ auth_last.status = 401
    /\ auth_last.detail = "Refresh token expired"
    /\ verify_refresh_token(auth_last.token, now)
    /\ \E i \in 1..Len(sessions) :
           /\ sessions[i].refresh_token = auth_last.token
           /\ sessions[i].expires_at < now
           /\ ~sessions[i].is_active

\* The sessions of the user a token names.
SessionsOf(token) ==
    { i \in 1..Len(sessions) : sessions[i].user_id = DecValue(token.sub) }

\* C25: when POST /auth/logout-all succeeds with a refresh token of user u,
\* every session of u is inactive afterwards and the sessions of the other
\* users are as they were; an inactive session never becomes active again,
\* and POST /auth/refresh with the token of an inactive session, so with
\* every refresh token issued to u before the call, answers 401.
C25_LogoutAllEffect ==
    [][/\ (auth_last'.op = "logout_all" /\ now' = now
           /\ auth_last'.status = 200)
          => /\ Len(sessions') = Len(sessions)
             /\ \A i \in SessionsOf(auth_last'.token) :
                    ~sessions'[i].is_active
             /\ \A i \in 1..Len(sessions) :
                    i \notin SessionsOf(auth_last'.token)
                        => sessions'[i] = sessions[i]
       /\ \A i \in 1..Len(sessions) :
              ~sessions[i].is_active => ~sessions'[i].is_active
       /\ (auth_last'.op = "refresh" /\ now' = now
           /\ \E i \in 1..Len(sessions) :
                  sessions[i].refresh_token = auth_last'.token
           /\ ActiveWith(auth_last'.token) = {})
          => auth_last'.status = 401]_vars

\* Both sessions of ann were made inactive at once by logout-all, no logout
\* and no expiry involved, bob's session is still active, and a refresh
\* with a token of ann that still verifies was refused.
C25_Witness ==
    /\ auth_last.op = "refresh"
    /\ auth_last.status = 401
    /\ verify_refresh_token(auth_last.token, now)
    /\ logged_out = {}
    /\ Cardinality(SessionsOf(auth_last.token)) = 2
    /\ \A i \in 1..Len(sessions) :
           sessions[i].is_active <=> i \notin SessionsOf(auth_last.token)
    /\ \E i \in 1..Len(sessions) : sessions[i].is_active

\* C27: the two types of token do not stand in for one another: a refresh
\* token sent as the bearer token is refused with 401 by get_current_user
\* and gets no user from get_optional_current_user, and an access token
\* sent to /auth/refresh, /auth/logout-all or /auth/sessions is refused
\* with 401.
C27_TokenTypes ==
    /\ (auth_last.op = "get_me" /\ auth_last.token.type = "refresh")
           => auth_last.status = 401
    /\ (auth_last.op = "get_optional_current_user"
        /\ auth_last.token.type = "refresh")
           => auth_last.email = ""
    /\ (auth_last.op \in {"refresh", "logout_all", "get_sessions"}
        /\ auth_last.token.type = "access")
           => /\ auth_last.status = 401
              /\ auth_last.listed = << >>

\* The refresh token of an active session of an active user, still valid,
\* was sent to GET /me as the bearer token.
C27_Witness ==
    /\ auth_last.op = "get_me"
    /\ auth_last.token.type = "refresh"
    /\ verify_refresh_token(auth_last.token, now)
    /\ UsableWith(auth_last.token) # {}

\* C29: GET /auth/sessions and POST /auth/logout-all succeed only with the
\* refresh token of a session that is active: with the token of a session
\* made inactive before (by logout, or by refresh on expiry) they answer
\* 401, list no session and change none.
C29_ActiveSessionRequired ==
    [][(/\ auth_last'.op \in {"get_sessions", "logout_all"}
        /\ now' = now
        /\ ActiveWith(auth_last'.token) = {})
          => /\ auth_last'.status = 401
             /\ auth_last'.listed = << >>
             /\ sessions' = sessions]_vars

----------------------------------------------------------------------------
(* Properties of the task routes.                                          *)

\* The rows of a table as a set, and those a user owns.
RowSet(table) == { table[i] : i \in 1..Len(table) }

OwnedBy(table, user_id) == { t \in RowSet(table) : t.user_id = user_id }

\* The last request named, in its path, a task that another user owned.
ForeignTaskRequest ==
    /\ task_last.op \in {"get_task", "update_task", "delete_task"}
    /\ task_last.caller # 0
    /\ \E t \in RowSet(task_last.before) :
        t.id = task_last.task_id /\ t.user_id # task_last.caller

\* C17: get_task, update_task and delete_task answer 200 only for a task
\* the caller owns; for another user's task they answer 404 'Task not
\* found' and no task is changed; no request changes or removes a task of
\* another user; get_tasks and get_progress return only the caller's tasks
\* and count exactly those.
C17_TaskIsolation ==
    /\ (task_last.op \in {"get_task", "update_task", "delete_task"}
            /\ task_last.status = 200)
           => \E t \in OwnedBy(task_last.before, task_last.caller) :
                  t.id = task_last.task_id
    /\ ForeignTaskRequest
           => /\ task_last.status = 404
              /\ task_last.detail = "Task not found"
              /\ tasks = task_last.before
    /\ \A t \in RowSet(task_last.before) :
           t.user_id # task_last.caller => t \in RowSet(tasks)
    /\ \A i \in 1..Len(task_last.body) :
           task_last.body[i].user_id = task_last.caller
    /\ (task_last.op = "get_progress" /\ task_last.status = 200)
           => /\ task_last.total = Cardinality(OwnedBy(tasks, task_last.caller))
              /\ task_last.completed =
                     Cardinality({ t \in OwnedBy(tasks, task_last.caller) :
                                       t.status = "completed" })
    /\ (task_last.op = "get_tasks" /\ task_last.status = 200)
           => /\ task_last.total <= Cardinality(OwnedBy(tasks, task_last.caller))
              /\ RowSet(task_last.body) \subseteq OwnedBy(tasks, task_last.caller)
              /\ task_last.total = Len(task_last.body)

\* A user asked to change the task of another, while having tasks of their
\* own, and was refused.
C17_Witness ==
    /\ ForeignTaskRequest
    /\ task_last.op = "update_task"
    /\ task_last.status = 404
    /\ OwnedBy(tasks, task_last.caller) # {}

----------------------------------------------------------------------------
(* Properties of the dashboard.                                            *)

\* The session's last query has searched the index.
HasRetrieved(s) ==
    browsers[s].pc = "generate" \/ (browsers[s].pc = "idle" /\ browsers[s].k > 0)

\* C22: the dashboard's write of num_sources to the shared pipeline and the
\* query that follows are separate steps, so a query retrieves with the
\* value of the last write to retrieval_k, whichever session made it: its
\* own num_sources only when its own write was the last, and otherwise the
\* num_sources another session wrote in between.
C22_RetrievesWithLastWrite ==
    \A s \in DOMAIN browsers :
        HasRetrieved(s) =>
            /\ browsers[s].writer \in DOMAIN browsers
            /\ browsers[s].writer = s =>
                   browsers[s].k = browsers[s].settings.num_sources
            /\ browsers[s].writer # s =>
                   \E settings \in SliderSettings :
                       browsers[s].k = settings.num_sources

\* A session asked for DefaultRetrievalK sources and its query retrieved one
\* passage, with the retrieval_k another session wrote.
C22_Witness ==
    \E s \in DOMAIN browsers :
        /\ HasRetrieved(s)
        /\ browsers[s].writer # s
        /\ browsers[s].settings.num_sources = DefaultRetrievalK
        /\ browsers[s].k = 1
        /\ browsers[s].retrieved = 1
        /\ browsers[s].result = "success"

----------------------------------------------------------------------------
(* Properties of the enhanced pipeline.                                    *)

\* The provider's credential is in the environment.
CredentialPresent(call) ==
    \/ call.model_provider = "cohere" /\ call.environ.cohere_key
    \/ call.model_provider = "huggingface" /\ call.environ.hf_token

\* C23: for provider "cohere" or "huggingface" with its credential present,
\* ask_question_with_provider returns no "Error: ..." string but the answer
\* RAGPipeline.query gives for the same index and the same outcomes of the
\* collaborators.
C23_ProviderAnswers ==
    CredentialPresent(enhanced) =>
        /\ enhanced.returned.prefix = ""
        /\ enhanced.returned.text =
               query(RAGPipeline(TRUE, DefaultRetrievalK,
                                 enhanced.environ.load).self,
                     enhanced.question, enhanced.env).result.answer

\* C26: generate_study_tasks returns exactly count tasks for every count of
\* 1..MaxCount, also when the default tasks stand in for the reply of the
\* model.
C26_ExactlyCount ==
    study.count > 0 => Len(study.returned) = study.count

----------------------------------------------------------------------------
(* Properties of the tasks over time.                                      *)

\* The row of the table before the step that has the id, if there is one.
Before(id) == SelectSeq(tasks, LAMBDA t : t.id = id)

\* C28: whatever create_task, generate_ai_tasks and update_task requests are
\* served, a task that is completed has a completed_at, a new task is
\* pending with completed_at NULL, and a completed_at once set is neither
\* changed nor cleared by a later request, the task leaving and entering
\* the status completed again included.
C28_CompletedAt ==
    [][\A i \in 1..Len(tasks') :
          /\ tasks'[i].status = "completed" => Len(tasks'[i].completed_at) = 1
          /\ Len(Before(tasks'[i].id)) = 0
                 => /\ tasks'[i].status = "pending"
                    /\ tasks'[i].completed_at = << >>
          /\ (/\ Len(Before(tasks'[i].id)) = 1
              /\ Len(Before(tasks'[i].id)[1].completed_at) = 1)
                 => tasks'[i].completed_at = Before(tasks'[i].id)[1].completed_at]_vars

\* A task completed earlier and set back to in_progress was set to
\* completed again a second later, and kept its first completed_at.
C28_Witness ==
    /\ task_last.op = "update_task"
    /\ task_last.status = 200
    /\ \E t \in RowSet(task_last.before) :
           /\ t.id = task_last.task_id
           /\ t.status = "in_progress"
           /\ Len(t.completed_at) = 1
           /\ t.completed_at[1] < now
    /\ task_last.body[1].status = "completed"
    /\ task_last.body[1].completed_at[1] < now

====
